---- MODULE Spec2Model ----
(***************************************************************************)
(* A model of the agent core of the RAG assistant (src/agent_core.py) and  *)
(* of the parts of src/llm_integration.py, src/document_processor.py and   *)
(* src/vector_store.py it drives: the tool registry and executor, the      *)
(* built-in tools, the agent memory and the turn of Agent.process_request. *)
(*                                                                         *)
(* Text is a sequence of fragments (single characters for user text, whole *)
(* literals for the fixed parts of a message), so concatenation is \o and  *)
(* "s contains t" is IsInfix(t, s).  Python's None is the record None and  *)
(* an Optional value v is Some(v).  An operation that may raise returns    *)
(* Ok(value) or Raise(message).  The external collaborators (vector index, *)
(* language model, GitHub API, clock) answer by nondeterministic choice.   *)
(***************************************************************************)
EXTENDS Integers, Sequences, FiniteSets, TLC

\* ------------------------------------------------------------------ bounds
MaxTurns == 1
MaxDirectCalls == 1
MaxRegistryOps == 1
MaxHits == 1
MaxChunks == 2
MaxAppends == 120
MaxWords == 3
MaxStored == 3
MaxPieces == 3
MaxChunkSize == 3
MaxGithubCalls == 2
MaxTextLen == 3
MaxEarlierItems == 49
MaxLogged == 3
MaxLimit == 4
MaxAdds == 2
MaxEarlierTurns == 26
MaxClearedAfter == 6

\* ------------------------------------------------------------------ values
None == [isNone |-> TRUE]
Some(v) == [isNone |-> FALSE, v |-> v]
Ok(v) == [raised |-> FALSE, value |-> v]
Raise(e) == [raised |-> TRUE, exc |-> e]

IsInfix(sub, s) ==
    \E i \in 0..(Len(s) - Len(sub)) : SubSeq(s, i + 1, i + Len(sub)) = sub

Whitespace == {" ", "\n", "\t"}
\* not s.strip(): s is empty or consists of whitespace only
Blank(s) == \A i \in DOMAIN s : s[i] \in Whitespace

Min(a, b) == IF a < b THEN a ELSE b

\* the measured (datetime.now() - start_time).total_seconds() of a call
Elapsed == {1}

\* the name of the temporary file AddToKnowledgeBaseTool writes
TempPath == "/tmp/tmpfile.txt"

\* ------------------------------------------------------------------ ToolResult
ToolResult(tool_name, success, result, error, execution_time, metadata) ==
    [tool_name |-> tool_name, success |-> success, result |-> result,
     error |-> error, execution_time |-> execution_time, metadata |-> metadata]

\* ------------------------------------------------------------------ retrieval
\* A SearchResult of the vector index: rank 0 is the most similar; scores are
\* in percent.
Hit(i) ==
    [content |-> <<"chunk", ToString(i)>>, score |-> 100 - 10 * i, rank |-> i - 1,
     source |-> "kb", chunk_index |-> i - 1]
HitLists == {[i \in 1..n |-> Hit(i)] : n \in 0..MaxHits}
\* what VectorStore.similarity_search may answer: a ranked list, or an error
SearchOutcomes == {Ok(h) : h \in HitLists} \cup {Raise(<<"index unavailable">>)}

\* the filter of retrieve_documents keeping only the scores above the threshold
AtLeast_above(results, min_score) ==
    LET F[i \in 0..Len(results)] ==
            IF i = 0 THEN <<>>
            ELSE IF results[i].score > min_score
                 THEN Append(F[i - 1], results[i]) ELSE F[i - 1]
    IN F[Len(results)]

\* [result for result in results if result.score >= min_score]
AtLeast(results, min_score) ==
    LET F[i \in 0..Len(results)] ==
            IF i = 0 THEN <<>>
            ELSE IF results[i].score >= min_score
                 THEN Append(F[i - 1], results[i]) ELSE F[i - 1]
    IN F[Len(results)]

\* VectorStore.similarity_search(query, k) of a store whose ranked answer to
\* a non-blank query is search (a list, or an error): both stores answer []
\* to an empty or whitespace-only query and give at most k results
similarity_search(query, k, search) ==
    IF Blank(query) THEN Ok(<<>>)
    ELSE IF search.raised THEN search
    ELSE Ok(SubSeq(search.value, 1, Min(k, Len(search.value))))

retrieve_documents(query, k, min_score, search) ==
    IF Blank(query) THEN Ok(<<>>)
    ELSE LET results == similarity_search(query, k, search)
         IN IF results.raised THEN results
            ELSE Ok(IF min_score > 0 THEN AtLeast(results.value, min_score)
                    ELSE results.value)

\* ------------------------------------------------------------------ documents
TextLoader_load_content(content) ==
    IF ~Blank(content) THEN Ok(content)
    ELSE Raise(<<"Could not decode file ", TempPath,
                 " with any supported encoding">>)

\* chunk_text making a chunk of every piece, with no test of the text or of
\* the pieces
chunk_text_unguarded(text, pieces, source_document) ==
    [i \in DOMAIN pieces |->
        [content |-> pieces[i], chunk_index |-> i - 1,
         source_document |-> source_document]]

\* TextChunker.chunk_text over the pieces the text splitter returned
chunk_text(text, pieces, source_document) ==
    IF Blank(text) THEN <<>>
    ELSE LET F[i \in 0..Len(pieces)] ==
                 IF i = 0 THEN <<>>
                 ELSE IF ~Blank(pieces[i])
                      THEN Append(F[i - 1],
                                  [content |-> pieces[i], chunk_index |-> i - 1,
                                   source_document |-> source_document])
                      ELSE F[i - 1]
         IN F[Len(pieces)]

\* what the recursive splitter returns for a non-blank text: n >= 1 stripped,
\* non-empty pieces (n is the splitter's choice)
split_text(text, n) == [i \in 1..n |-> text]

process_document(content, pieces) ==
    LET loaded == TextLoader_load_content(content) IN
    IF loaded.raised
    THEN Raise(<<"Failed to load content from ", TempPath, ": ">> \o loaded.exc)
    ELSE IF Blank(loaded.value)
    THEN Raise(<<"No content extracted from ", TempPath>>)
    ELSE Ok([chunks |-> chunk_text(loaded.value, pieces, TempPath),
             original_content |-> loaded.value])

\* ------------------------------------------------------------------ text analysis
IsWordStart(s, i) == s[i] \notin Whitespace /\ (i = 1 \/ s[i - 1] \in Whitespace)
\* text.split(): the whitespace-separated words, in order
Words(s) ==
    LET F[i \in 0..Len(s)] ==
            IF i = 0 THEN <<>>
            ELSE IF s[i] \in Whitespace THEN F[i - 1]
            ELSE IF IsWordStart(s, i) THEN Append(F[i - 1], <<s[i]>>)
            ELSE [F[i - 1] EXCEPT ![Len(F[i - 1])] = Append(@, s[i])]
    IN F[Len(s)]
\* text.split(sep): the parts between the occurrences of the character sep
SplitOn(s, sep) ==
    LET F[i \in 0..Len(s)] ==
            IF i = 0 THEN << <<>> >>
            ELSE IF s[i] = sep THEN Append(F[i - 1], <<>>)
            ELSE [F[i - 1] EXCEPT ![Len(F[i - 1])] = Append(@, s[i])]
    IN F[Len(s)]
SumLen(ws) ==
    LET F[i \in 0..Len(ws)] == IF i = 0 THEN 0 ELSE F[i - 1] + Len(ws[i])
    IN F[Len(ws)]
CountNonBlank(parts) == Cardinality({i \in DOMAIN parts : ~Blank(parts[i])})
\* a quotient of two counts, kept exact; Python's guarded "else 0" is Zero
Ratio(n, d) == [num |-> n, den |-> d]
Zero == Ratio(0, 1)

Punctuation == {".", ",", "!", "?", ";", ":", "\"", "(", ")", "[", "]", "{", "}"}
LowerChar(c) ==
    CASE c = "A" -> "a" [] c = "B" -> "b" [] c = "C" -> "c" [] c = "D" -> "d" []
    c = "E" -> "e" [] c = "F" -> "f" [] c = "G" -> "g" [] c = "H" -> "h" [] c =
    "I" -> "i" [] c = "J" -> "j" [] c = "K" -> "k" [] c = "L" -> "l" [] c = "M"
    -> "m" [] c = "N" -> "n" [] c = "O" -> "o" [] c = "P" -> "p" [] c = "Q" ->
    "q" [] c = "R" -> "r" [] c = "S" -> "s" [] c = "T" -> "t" [] c = "U" -> "u"
    [] c = "V" -> "v" [] c = "W" -> "w" [] c = "X" -> "x" [] c = "Y" -> "y" [] c
    = "Z" -> "z" [] OTHER -> c
Lower(s) == [i \in DOMAIN s |-> LowerChar(s[i])]
\* word.strip(punctuation)
StripPunct(w) ==
    LET keep == {i \in DOMAIN w : w[i] \notin Punctuation} IN
    IF keep = {} THEN <<>>
    ELSE LET lo == CHOOSE i \in keep : \A j \in keep : i <= j
             hi == CHOOSE i \in keep : \A j \in keep : i >= j
         IN SubSeq(w, lo, hi)

\* _basic_analysis dividing without looking at the number of words
basic_analysis_unguarded(text) ==
    LET lines == SplitOn(text, "\n")
        words == Words(text)
    IN [kind |-> "analysis",
        character_count |-> Len(text),
        word_count |-> Len(words),
        line_count |-> Len(lines),
        paragraph_count |-> CountNonBlank(lines),
        average_word_length |-> Ratio(SumLen(words), Len(words))]

basic_analysis(text) ==
    LET lines == SplitOn(text, "\n")
        words == Words(text)
    IN [kind |-> "analysis",
        character_count |-> Len(text),
        word_count |-> Len(words),
        line_count |-> Len(lines),
        paragraph_count |-> CountNonBlank(lines),
        average_word_length |->
            IF words # <<>> THEN Ratio(SumLen(words), Len(words)) ELSE Zero]

detailed_analysis(text) ==
    LET basic == basic_analysis(text)
        sentences == SplitOn(text, ".")
        words == Words(text)
        unique_words == {StripPunct(Lower(words[i])) : i \in DOMAIN words}
    IN [kind |-> "analysis",
        character_count |-> basic.character_count,
        word_count |-> basic.word_count,
        line_count |-> basic.line_count,
        paragraph_count |-> basic.paragraph_count,
        average_word_length |-> basic.average_word_length,
        sentence_count |-> CountNonBlank(sentences),
        unique_words |-> Cardinality(unique_words),
        vocabulary_richness |->
            IF words # <<>> THEN Ratio(Cardinality(unique_words), Len(words))
            ELSE Zero,
        average_sentence_length |->
            IF sentences # <<>> THEN Ratio(Len(words), Len(sentences)) ELSE Zero]

\* ------------------------------------------------------------------ tools
\* The keyword parameters of each tool's execute: required, optional, and
\* whether it takes **kwargs.
Signature(tool_name) ==
    CASE tool_name = "document_search" ->
           [required |-> {"query"}, optional |-> {"k", "min_score"}, var_kw |-> FALSE]
      [] tool_name = "add_to_knowledge_base" ->
           [required |-> {"content", "title"}, optional |-> {"source", "metadata"},
            var_kw |-> FALSE]
      [] tool_name = "text_analysis" ->
           [required |-> {"text"}, optional |-> {"analysis_type"}, var_kw |-> FALSE]
      [] tool_name = "github_search_with_content" ->
           [required |-> {"query"},
            optional |-> {"search_type", "language", "fetch_content",
                          "max_content_files"},
            var_kw |-> TRUE]
      [] OTHER -> [required |-> {}, optional |-> {}, var_kw |-> TRUE]

\* Python's binding of **kwargs to the parameters: a TypeError on a keyword
\* the function does not take or on a missing required one.
Bind(tool_name, kwargs) ==
    LET sig == Signature(tool_name) IN
    IF ~sig.var_kw /\ ~(DOMAIN kwargs \subseteq (sig.required \cup sig.optional))
    THEN Raise(<<"execute() got an unexpected keyword argument">>)
    ELSE IF ~(sig.required \subseteq DOMAIN kwargs)
    THEN Raise(<<"execute() missing required positional argument">>)
    ELSE Ok(kwargs)

Get(kwargs, key, default) == IF key \in DOMAIN kwargs THEN kwargs[key] ELSE default

\* The answers of the collaborators during one tool call.
\*   elapsed   the measured execution time
\*   search    the vector index's answer to similarity_search
\*   nchunks   the number of pieces the text splitter returns
\*   add_ok    the vector index's answer to add_documents
\*   gh        the GitHub API's answer: Raise(..) or Ok(items)
\*   custom    what a caller-registered tool does: "ok" or "raise"
\*   now       the clock
DocumentSearchTool_execute(kwargs, ext, env) ==
    LET query == kwargs.query
        k == Get(kwargs, "k", 5)
        min_score == Get(kwargs, "min_score", 0)
        results == retrieve_documents(query, k, min_score, env.search)
    IN IF ~results.raised
       THEN [out |-> Ok(ToolResult("document_search", TRUE,
                         [kind |-> "search", query |-> query,
                          results |-> results.value,
                          total_results |-> Len(results.value)],
                         None, env.elapsed, {"retrieval_k", "min_score"})),
             ext |-> ext]
       ELSE [out |-> Ok(ToolResult("document_search", FALSE, None,
                         Some(results.exc), env.elapsed, {})),
             ext |-> ext]

DocumentManager_record(dm, title, source, nchunks, now) ==
    [processed_documents |->
         Append(dm.processed_documents,
                [filename |-> title, path |-> <<"tool:", source>>,
                 chunks |-> nchunks, processed_at |-> now]),
     document_stats |->
         [total_documents |-> dm.document_stats.total_documents + 1,
          total_chunks |-> dm.document_stats.total_chunks + nchunks,
          last_updated |-> Some(now)]]

\* AddToKnowledgeBaseTool.execute updating the statistics before it looks at
\* what add_documents answered
AddToKnowledgeBaseTool_execute_counting_first(kwargs, ext, env) ==
    LET content == kwargs.content
        title == kwargs.title
        source == Get(kwargs, "source", "user_input")
        processed == process_document(content, split_text(content, env.nchunks))
    IN IF processed.raised
       THEN [out |-> Ok(ToolResult("add_to_knowledge_base", FALSE, None,
                         Some(<<"DocumentProcessor failed: ">> \o processed.exc),
                         env.elapsed, {})),
             ext |-> ext]
       ELSE [out |-> Ok(ToolResult("add_to_knowledge_base", env.add_ok,
                         [kind |-> "kb_add", title |-> title,
                          chunks_added |-> Len(processed.value.chunks),
                          total_characters |-> Len(content),
                          source |-> source,
                          stats_updated |-> ~ext.document_manager.isNone],
                         None, env.elapsed, {"source_type"})),
             ext |-> [index_chunks |->
                          IF env.add_ok
                          THEN ext.index_chunks + Len(processed.value.chunks)
                          ELSE ext.index_chunks,
                      document_manager |->
                          IF ~ext.document_manager.isNone
                          THEN Some(DocumentManager_record(
                                   ext.document_manager.v, title, source,
                                   Len(processed.value.chunks), env.now))
                          ELSE ext.document_manager]]

AddToKnowledgeBaseTool_execute(kwargs, ext, env) ==
    LET content == kwargs.content
        title == kwargs.title
        source == Get(kwargs, "source", "user_input")
        processed == process_document(content, split_text(content, env.nchunks))
    IN IF processed.raised
       THEN [out |-> Ok(ToolResult("add_to_knowledge_base", FALSE, None,
                         Some(<<"DocumentProcessor failed: ">> \o processed.exc),
                         env.elapsed, {})),
             ext |-> ext]
       ELSE LET chunks == processed.value.chunks IN
            IF chunks # <<>>
            THEN LET success == env.add_ok
                     has_dm == ~ext.document_manager.isNone
                 IN [out |-> Ok(ToolResult("add_to_knowledge_base", success,
                                 [kind |-> "kb_add", title |-> title,
                                  chunks_added |-> Len(chunks),
                                  total_characters |-> Len(content),
                                  source |-> source, stats_updated |-> has_dm],
                                 None, env.elapsed, {"source_type"})),
                     ext |-> [index_chunks |->
                                  IF success THEN ext.index_chunks + Len(chunks)
                                  ELSE ext.index_chunks,
                              document_manager |->
                                  IF success /\ has_dm
                                  THEN Some(DocumentManager_record(
                                           ext.document_manager.v, title, source,
                                           Len(chunks), env.now))
                                  ELSE ext.document_manager]]
            ELSE [out |-> Ok(ToolResult("add_to_knowledge_base", FALSE, None,
                              Some(<<"No content could be extracted">>), 0, {})),
                  ext |-> ext]

TextAnalysisTool_execute(kwargs, ext, env) ==
    LET text == kwargs.text
        analysis_type == Get(kwargs, "analysis_type", "basic")
    IN IF analysis_type \in {"basic", "detailed"}
       THEN [out |-> Ok(ToolResult("text_analysis", TRUE,
                         IF analysis_type = "basic" THEN basic_analysis(text)
                         ELSE detailed_analysis(text),
                         None, env.elapsed, {"analysis_type"})),
             ext |-> ext]
       ELSE [out |-> Ok(ToolResult("text_analysis", FALSE, None,
                         Some(<<"Unknown analysis type: ", analysis_type>>),
                         env.elapsed, {})),
             ext |-> ext]

GitHubSearchWithContentTool_execute(kwargs, ext, env) ==
    LET query == kwargs.query
        search_type == Get(kwargs, "search_type", "code")
        fetch_content == Get(kwargs, "fetch_content", TRUE)
        max_content_files == Get(kwargs, "max_content_files", 3)
    IN IF env.gh.raised
       THEN [out |-> Ok(ToolResult("github_search_with_content", FALSE, None,
                         Some(<<"GitHub search with content failed: ">> \o env.gh.exc),
                         env.elapsed, {})),
             ext |-> ext]
       ELSE LET items == env.gh.value
                results_with_content ==
                    IF items # <<>> /\ fetch_content
                    THEN SubSeq(items, 1, Min(max_content_files, Len(items)))
                    ELSE <<>>
            IN [out |-> Ok(ToolResult("github_search_with_content", TRUE,
                            [kind |-> "github_content", query |-> query,
                             search_type |-> search_type,
                             total_count |-> Len(items),
                             results |-> results_with_content,
                             content_fetched |-> fetch_content,
                             files_with_content |->
                                 Cardinality({i \in DOMAIN results_with_content :
                                     ~results_with_content[i].content.isNone})],
                            None, env.elapsed, {"language", "max_content_files"})),
                ext |-> ext]

\* a tool a caller registered with register_tool: its body returns or raises
CustomTool_execute(kwargs, ext, env) ==
    IF env.custom = "raise"
    THEN [out |-> Raise(<<"custom tool failure">>), ext |-> ext]
    ELSE [out |-> Ok(ToolResult("custom_tool", TRUE, [kind |-> "custom"], None,
                                env.elapsed, {})),
          ext |-> ext]

\* tool.execute(**kwargs): the binding of the arguments, then the tool's body
Tool_execute(tool_name, kwargs, ext, env) ==
    LET bound == Bind(tool_name, kwargs) IN
    IF bound.raised THEN [out |-> bound, ext |-> ext]
    ELSE CASE tool_name = "document_search" ->
                DocumentSearchTool_execute(kwargs, ext, env)
           [] tool_name = "add_to_knowledge_base" ->
                AddToKnowledgeBaseTool_execute(kwargs, ext, env)
           [] tool_name = "text_analysis" ->
                TextAnalysisTool_execute(kwargs, ext, env)
           [] tool_name = "github_search_with_content" ->
                GitHubSearchWithContentTool_execute(kwargs, ext, env)
           [] tool_name = "custom_tool" ->
                CustomTool_execute(kwargs, ext, env)

\* ------------------------------------------------------------------ ToolManager
HistoryEntry(tool_name, kwargs, result, now) ==
    [tool_name |-> tool_name, parameters |-> kwargs, result |-> result,
     timestamp |-> now]

\* ToolManager.execute_tool on the registry reg and the history hist.  Gives
\* the ToolResult handed to the caller (raised says whether an exception
\* left the function instead), the history and the collaborators' state
\* after the call, whether tool.execute was called, and what it raised.
\* execute_tool without its except clause: what the body raises leaves the
\* function
recorded_call_propagating(reg, hist, ext, tool_name, kwargs, env, call) ==
    IF tool_name \notin DOMAIN reg
    THEN [raised |-> FALSE,
          result |-> ToolResult(tool_name, FALSE, None,
                        Some(<<"Tool '", tool_name, "' ", "not found">>), 0, {}),
          history |-> hist, ext |-> ext, invoked |-> FALSE, body_exc |-> None]
    ELSE IF ~reg[tool_name].enabled
    THEN [raised |-> FALSE,
          result |-> ToolResult(tool_name, FALSE, None,
                        Some(<<"Tool '", tool_name, "' is ", "disabled">>), 0, {}),
          history |-> hist, ext |-> ext, invoked |-> FALSE, body_exc |-> None]
    ELSE [raised |-> call.out.raised,
          result |-> IF call.out.raised
                     THEN ToolResult(tool_name, FALSE, None, Some(call.out.exc), 0, {})
                     ELSE call.out.value,
          history |-> IF call.out.raised THEN hist
                      ELSE Append(hist, HistoryEntry(tool_name, kwargs,
                                                     call.out.value, env.now)),
          ext |-> call.ext, invoked |-> TRUE,
          body_exc |-> IF call.out.raised THEN Some(call.out.exc) ELSE None]

\* execute_tool whose except clause returns the error result without logging it
recorded_call_unlogged_failure(reg, hist, ext, tool_name, kwargs, env, call) ==
    IF tool_name \notin DOMAIN reg
    THEN [raised |-> FALSE,
          result |-> ToolResult(tool_name, FALSE, None,
                        Some(<<"Tool '", tool_name, "' ", "not found">>), 0, {}),
          history |-> hist, ext |-> ext, invoked |-> FALSE, body_exc |-> None]
    ELSE IF ~reg[tool_name].enabled
    THEN [raised |-> FALSE,
          result |-> ToolResult(tool_name, FALSE, None,
                        Some(<<"Tool '", tool_name, "' is ", "disabled">>), 0, {}),
          history |-> hist, ext |-> ext, invoked |-> FALSE, body_exc |-> None]
    ELSE IF ~call.out.raised
         THEN [raised |-> FALSE,
               result |-> call.out.value,
               history |-> Append(hist, HistoryEntry(tool_name, kwargs,
                                                     call.out.value, env.now)),
               ext |-> call.ext, invoked |-> TRUE, body_exc |-> None]
         ELSE [raised |-> FALSE,
               result |-> ToolResult(tool_name, FALSE, None,
                             Some(<<"Tool execution failed: ">> \o call.out.exc),
                             0, {}),
               history |-> hist, ext |-> call.ext, invoked |-> TRUE,
               body_exc |-> Some(call.out.exc)]

\* execute_tool without the test of tool.enabled
recorded_call_ignoring_enabled(reg, hist, ext, tool_name, kwargs, env, call) ==
    IF tool_name \notin DOMAIN reg
    THEN [raised |-> FALSE,
          result |-> ToolResult(tool_name, FALSE, None,
                        Some(<<"Tool '", tool_name, "' ", "not found">>), 0, {}),
          history |-> hist, ext |-> ext, invoked |-> FALSE, body_exc |-> None]
    ELSE IF ~call.out.raised
         THEN [raised |-> FALSE,
               result |-> call.out.value,
               history |-> Append(hist, HistoryEntry(tool_name, kwargs,
                                                     call.out.value, env.now)),
               ext |-> call.ext, invoked |-> TRUE, body_exc |-> None]
         ELSE [raised |-> FALSE,
               result |-> ToolResult(tool_name, FALSE, None,
                             Some(<<"Tool execution failed: ">> \o call.out.exc),
                             0, {}),
               history |-> Append(hist, HistoryEntry(tool_name, kwargs,
                                      ToolResult(tool_name, FALSE, None,
                                          Some(<<"Tool execution failed: ">>
                                               \o call.out.exc), 0, {}),
                                      env.now)),
               ext |-> call.ext, invoked |-> TRUE,
               body_exc |-> Some(call.out.exc)]

recorded_call(reg, hist, ext, tool_name, kwargs, env, call) ==
    IF tool_name \notin DOMAIN reg
    THEN [raised |-> FALSE,
          result |-> ToolResult(tool_name, FALSE, None,
                        Some(<<"Tool '", tool_name, "' ", "not found">>), 0, {}),
          history |-> hist, ext |-> ext, invoked |-> FALSE, body_exc |-> None]
    ELSE IF ~reg[tool_name].enabled
    THEN [raised |-> FALSE,
          result |-> ToolResult(tool_name, FALSE, None,
                        Some(<<"Tool '", tool_name, "' is ", "disabled">>), 0, {}),
          history |-> hist, ext |-> ext, invoked |-> FALSE, body_exc |-> None]
    ELSE IF ~call.out.raised
         THEN [raised |-> FALSE,
               result |-> call.out.value,
               history |-> Append(hist, HistoryEntry(tool_name, kwargs,
                                                     call.out.value, env.now)),
               ext |-> call.ext, invoked |-> TRUE, body_exc |-> None]
         ELSE LET error_result ==
                      ToolResult(tool_name, FALSE, None,
                          Some(<<"Tool execution failed: ">> \o call.out.exc), 0, {})
              IN [raised |-> FALSE,
                  result |-> error_result,
                  history |-> Append(hist, HistoryEntry(tool_name, kwargs,
                                                        error_result, env.now)),
                  ext |-> call.ext, invoked |-> TRUE,
                  body_exc |-> Some(call.out.exc)]

execute_tool(reg, hist, ext, tool_name, kwargs, env) ==
    recorded_call(reg, hist, ext, tool_name, kwargs, env,
                  Tool_execute(tool_name, kwargs, ext, env))

\* ------------------------------------------------------------------ AgentMemory
ShortTermLimit == 50

EmptyDict == [k \in {} |-> None]
DictSet(d, key, value) ==
    [k \in DOMAIN d \cup {key} |-> IF k = key THEN value ELSE d[k]]

NewMemory(now) ==
    [short_term_memory |-> <<>>, long_term_memory |-> EmptyDict,
     working_memory |-> EmptyDict, created_at |-> now, updated_at |-> now]

\* add_to_short_term trimming with [:50]: the oldest items are kept
add_to_short_term_keep_oldest(memory, memory_item, now) ==
    LET appended == Append(memory.short_term_memory,
                           DictSet(memory_item, "timestamp", now))
    IN [memory EXCEPT
          !.short_term_memory =
              IF Len(appended) > ShortTermLimit
              THEN SubSeq(appended, 1, ShortTermLimit)
              ELSE appended,
          !.updated_at = now]

add_to_short_term(memory, memory_item, now) ==
    LET appended == Append(memory.short_term_memory,
                           DictSet(memory_item, "timestamp", now))
    IN [memory EXCEPT
          !.short_term_memory =
              IF Len(appended) > ShortTermLimit
              THEN SubSeq(appended, Len(appended) - ShortTermLimit + 1,
                          Len(appended))
              ELSE appended,
          !.updated_at = now]

update_working_memory(memory, key, value, now) ==
    [memory EXCEPT !.working_memory = DictSet(@, key, value),
                   !.updated_at = now]

\* ------------------------------------------------------------------ policy
keywords_for_search ==
    {<<"s", "e", "a", "r", "c", "h">>,
     <<"f", "i", "n", "d">>,
     <<"l", "o", "o", "k", "u", "p">>,
     <<"d", "o", "c", "u", "m", "e", "n", "t">>,
     <<"i", "n", "f", "o", "r", "m", "a", "t", "i", "o", "n">>,
     <<"w", "h", "a", "t">>,
     <<"w", "h", "o">>,
     <<"w", "h", "e", "n">>,
     <<"w", "h", "e", "r", "e">>,
     <<"h", "o", "w">>}

\* the analysis keywords without their first entry
keywords_for_analysis_without_analyze ==
    {<<"a", "n", "a", "l", "y", "s", "i", "s">>,
     <<"s", "t", "a", "t", "i", "s", "t", "i", "c", "s">>,
     <<"c", "o", "u", "n", "t">>,
     <<"l", "e", "n", "g", "t", "h">>,
     <<"s", "t", "r", "u", "c", "t", "u", "r", "e">>}

keywords_for_analysis ==
    {<<"a", "n", "a", "l", "y", "z", "e">>,
     <<"a", "n", "a", "l", "y", "s", "i", "s">>,
     <<"s", "t", "a", "t", "i", "s", "t", "i", "c", "s">>,
     <<"c", "o", "u", "n", "t">>,
     <<"l", "e", "n", "g", "t", "h">>,
     <<"s", "t", "r", "u", "c", "t", "u", "r", "e">>}

keywords_for_github ==
    {<<"g", "i", "t", "h", "u", "b">>,
     <<"c", "o", "d", "e">>,
     <<"r", "e", "p", "o", "s", "i", "t", "o", "r", "y">>,
     <<"r", "e", "p", "o">>,
     <<"f", "u", "n", "c", "t", "i", "o", "n">>,
     <<"c", "l", "a", "s", "s">>,
     <<"i", "m", "p", "l", "e", "m", "e", "n", "t", "a", "t", "i", "o", "n">>,
     <<"e", "x", "a", "m", "p", "l", "e">>,
     <<"l", "i", "b", "r", "a", "r", "y">>,
     <<"p", "a", "c", "k", "a", "g", "e">>}

keywords_for_code_search ==
    {<<"d", "e", "f">>,
     <<"f", "u", "n", "c", "t", "i", "o", "n">>,
     <<"c", "l", "a", "s", "s">>,
     <<"i", "m", "p", "o", "r", "t">>,
     <<"a", "s", "y", "n", "c">>,
     <<"a", "w", "a", "i", "t">>,
     <<"p", "y", "t", "h", "o", "n">>,
     <<"j", "a", "v", "a", "s", "c", "r", "i", "p", "t">>,
     <<"j", "a", "v", "a">>,
     <<"c", "+", "+">>}

language_keywords ==
    <<[language |-> "python",
      keywords |-> {<<"p", "y", "t", "h", "o", "n">>,
                    <<"d", "e", "f">>,
                    <<"i", "m", "p", "o", "r", "t">>,
                    <<"c", "l", "a", "s", "s">>,
                    <<"p", "i", "p">>,
                    <<"d", "j", "a", "n", "g", "o">>,
                    <<"f", "l", "a", "s", "k">>,
                    <<"p", "a", "n", "d", "a", "s">>}],
     [language |-> "javascript",
      keywords |-> {<<"j", "a", "v", "a", "s", "c", "r", "i", "p", "t">>,
                    <<"j", "s">>,
                    <<"f", "u", "n", "c", "t", "i", "o", "n">>,
                    <<"v", "a", "r">>,
                    <<"l", "e", "t">>,
                    <<"c", "o", "n", "s", "t">>,
                    <<"n", "o", "d", "e">>,
                    <<"r", "e", "a", "c", "t">>,
                    <<"v", "u", "e">>}],
     [language |-> "java",
      keywords |-> {<<"j", "a", "v", "a">>,
                    <<"p", "u", "b", "l", "i", "c">>,
                    <<"p", "r", "i", "v", "a", "t", "e">>,
                    <<"c", "l", "a", "s", "s">>,
                    <<"i", "m", "p", "o", "r", "t">>,
                    <<"s", "p", "r", "i", "n", "g">>,
                    <<"m", "a", "v", "e", "n">>}],
     [language |-> "typescript",
      keywords |-> {<<"t", "y", "p", "e", "s", "c", "r", "i", "p", "t">>,
                    <<"t", "s">>,
                    <<"i", "n", "t", "e", "r", "f", "a", "c", "e">>,
                    <<"t", "y", "p", "e">>}],
     [language |-> "c++",
      keywords |-> {<<"c", "+", "+">>,
                    <<"c", "p", "p">>,
                    <<"i", "n", "c", "l", "u", "d", "e">>,
                    <<"n", "a", "m", "e", "s", "p", "a", "c", "e">>,
                    <<"s", "t", "d">>}],
     [language |-> "go",
      keywords |-> {<<"g", "o", "l", "a", "n", "g">>,
                    <<"g", "o">>,
                    <<"f", "u", "n", "c">>,
                    <<"p", "a", "c", "k", "a", "g", "e">>}],
     [language |-> "rust",
      keywords |-> {<<"r", "u", "s", "t">>,
                    <<"f", "n">>,
                    <<"c", "a", "r", "g", "o">>,
                    <<"c", "r", "a", "t", "e">>}],
     [language |-> "php",
      keywords |-> {<<"p", "h", "p">>,
                    <<"f", "u", "n", "c", "t", "i", "o", "n">>,
                    <<"c", "l", "a", "s", "s">>,
                    <<"c", "o", "m", "p", "o", "s", "e", "r">>}],
     [language |-> "ruby",
      keywords |-> {<<"r", "u", "b", "y">>,
                    <<"d", "e", "f">>,
                    <<"c", "l", "a", "s", "s">>,
                    <<"g", "e", "m">>}],
     [language |-> "swift",
      keywords |-> {<<"s", "w", "i", "f", "t">>,
                    <<"f", "u", "n", "c">>,
                    <<"c", "l", "a", "s", "s">>,
                    <<"v", "a", "r">>,
                    <<"l", "e", "t">>}]>>

AnyKeyword(keywords, text) == \E keyword \in keywords : IsInfix(keyword, text)

\* _detect_programming_language returning the last family that matches
detect_programming_language_last_match(query) ==
    LET query_lower == Lower(query)
        matching == {i \in DOMAIN language_keywords :
                        AnyKeyword(language_keywords[i].keywords, query_lower)}
    IN IF matching = {} THEN None
       ELSE Some(language_keywords[CHOOSE i \in matching :
                                       \A j \in matching : i >= j].language)

detect_programming_language(query) ==
    LET query_lower == Lower(query)
        matching == {i \in DOMAIN language_keywords :
                        AnyKeyword(language_keywords[i].keywords, query_lower)}
    IN IF matching = {} THEN None
       ELSE Some(language_keywords[CHOOSE i \in matching :
                                       \A j \in matching : i <= j].language)

\* _decide_tool_usage with "if" in place of "elif" for the document search
decide_tool_usage_without_elif(user_input) ==
    LET user_lower == Lower(user_input)
        first ==
            IF AnyKeyword(keywords_for_github, user_lower)
               \/ AnyKeyword(keywords_for_code_search, user_lower)
            THEN << [tool_name |-> "github_search_with_content",
                     parameters |->
                         [query |-> user_input, search_type |-> "code",
                          language |-> detect_programming_language(user_input),
                          fetch_content |-> TRUE, max_content_files |-> 3]] >>
            ELSE <<>>
        second ==
            IF AnyKeyword(keywords_for_search, user_lower)
            THEN << [tool_name |-> "document_search",
                     parameters |-> [query |-> user_input, k |-> 5]] >>
            ELSE <<>>
        third ==
            IF AnyKeyword(keywords_for_analysis, user_lower)
            THEN << [tool_name |-> "text_analysis",
                     parameters |-> [text |-> user_input,
                                     analysis_type |-> "basic"]] >>
            ELSE <<>>
        recommended_tools == first \o second \o third
    IN [use_tools |-> Len(recommended_tools) > 0,
        recommended_tools |-> recommended_tools]

\* _decide_tool_usage with the analysis rule as the last "elif" of the chain
decide_tool_usage_one_rule(user_input) ==
    LET user_lower == Lower(user_input)
        recommended_tools ==
            IF AnyKeyword(keywords_for_github, user_lower)
               \/ AnyKeyword(keywords_for_code_search, user_lower)
            THEN << [tool_name |-> "github_search_with_content",
                     parameters |->
                         [query |-> user_input, search_type |-> "code",
                          language |-> detect_programming_language(user_input),
                          fetch_content |-> TRUE, max_content_files |-> 3]] >>
            ELSE IF AnyKeyword(keywords_for_search, user_lower)
            THEN << [tool_name |-> "document_search",
                     parameters |-> [query |-> user_input, k |-> 5]] >>
            ELSE IF AnyKeyword(keywords_for_analysis, user_lower)
            THEN << [tool_name |-> "text_analysis",
                     parameters |-> [text |-> user_input,
                                     analysis_type |-> "basic"]] >>
            ELSE <<>>
    IN [use_tools |-> Len(recommended_tools) > 0,
        recommended_tools |-> recommended_tools]

decide_tool_usage(user_input) ==
    LET user_lower == Lower(user_input)
        first ==
            IF AnyKeyword(keywords_for_github, user_lower)
               \/ AnyKeyword(keywords_for_code_search, user_lower)
            THEN << [tool_name |-> "github_search_with_content",
                     parameters |->
                         [query |-> user_input, search_type |-> "code",
                          language |-> detect_programming_language(user_input),
                          fetch_content |-> TRUE, max_content_files |-> 3]] >>
            ELSE IF AnyKeyword(keywords_for_search, user_lower)
            THEN << [tool_name |-> "document_search",
                     parameters |-> [query |-> user_input, k |-> 5]] >>
            ELSE <<>>
        second ==
            IF AnyKeyword(keywords_for_analysis, user_lower)
            THEN << [tool_name |-> "text_analysis",
                     parameters |-> [text |-> user_input,
                                     analysis_type |-> "basic"]] >>
            ELSE <<>>
        recommended_tools == first \o second
    IN [use_tools |-> Len(recommended_tools) > 0,
        recommended_tools |-> recommended_tools]

\* ------------------------------------------------------------------ LLM, RAG chain
\* LLMManager.generate_response: client says whether the OpenAI client was
\* initialised, api is the API's answer (Ok(content) or Raise(message)).
generate_response(client, api) ==
    IF ~client
    THEN Raise(<<"OpenAI client not initialized. Check API key and dependencies.">>)
    ELSE IF api.raised THEN Raise(<<"Failed to generate response: ">> \o api.exc)
    ELSE Ok([content |-> api.value])

\* s.strip()
Strip(s) ==
    LET keep == {i \in DOMAIN s : s[i] \notin Whitespace} IN
    IF keep = {} THEN <<>>
    ELSE SubSeq(s, CHOOSE i \in keep : \A j \in keep : i <= j,
                   CHOOSE i \in keep : \A j \in keep : i >= j)

\* Conversation.add_message: ConversationMessage rejects blank content
add_message(messages, role, content) ==
    IF Blank(content) THEN Raise(<<"Message content cannot be empty">>)
    ELSE Ok(Append(messages, [role |-> role, content |-> Strip(content)]))

\* "\n\n".join(parts)
Join(parts) ==
    LET F[i \in 0..Len(parts)] ==
            IF i = 0 THEN <<>>
            ELSE IF i = 1 THEN parts[1]
            ELSE F[i - 1] \o <<"\n\n">> \o parts[i]
    IN F[Len(parts)]

Prefix(s, n) == SubSeq(s, 1, Min(n, Len(s)))
LastN(s, n) == SubSeq(s, IF Len(s) > n THEN Len(s) - n + 1 ELSE 1, Len(s))

\* the call retriever.retrieve_documents(query, k=retrieval_k) of
\* process_query, for the observers of a turn: the query it passes, and
\* whether retrieve_documents goes on to similarity_search (it returns []
\* before that for an empty or whitespace-only query)
retrieval(query) == [query |-> query, index_searched |-> ~Blank(query)]

\* RAGChain.process_query(query, conversation_id, "rag_qa", retrieval_k=5) on
\* the conversation the ConversationManager holds for the agent (None when
\* it has none yet).  A raise of the retriever leaves the function; a raise
\* of the LLM call or of add_message is caught and reported as success=False.
\* llm_calls lists the LLM calls made, for the observers of a turn.
rag_answer(query, conversation, search_results, llm_response) ==
    IF search_results.raised
    THEN [raised |-> TRUE, exc |-> search_results.exc,
          conversation |-> conversation, llm_calls |-> <<>>,
          retrievals |-> <<retrieval(query)>>]
    ELSE
    LET context_parts ==
            [i \in DOMAIN search_results.value |->
                <<"Document ", ToString(i), ":\n">> \o search_results.value[i].content]
        context == IF context_parts # <<>> THEN Join(context_parts)
                   ELSE <<"No relevant documents found.">>
        history == IF conversation.isNone THEN <<>>
                   ELSE LastN(conversation.v, 10)
        messages ==
            << [role |-> "system", content |-> <<"rag_qa system prompt">>] >>
            \o history
            \o << [role |-> "user",
                   content |-> <<"Context from retrieved documents:\n">> \o context
                               \o <<"\n\nQuestion: ">> \o query] >>
        call == [kind |-> "rag", raised |-> llm_response.raised,
                 error |-> IF llm_response.raised THEN Some(llm_response.exc)
                           ELSE None,
                 retrieval_context |-> TRUE, messages |-> messages]
        failure(error, conv) ==
            [raised |-> FALSE,
             value |-> [success |-> FALSE, error |-> error,
                        retrieval_results |-> search_results.value,
                        context_used |-> context],
             conversation |-> conv, llm_calls |-> <<call>>,
             retrievals |-> <<retrieval(query)>>]
    IN IF llm_response.raised THEN failure(llm_response.exc, conversation)
       ELSE
       LET existing == IF conversation.isNone THEN <<>> ELSE conversation.v
           with_user == add_message(existing, "user", query)
       IN IF with_user.raised THEN failure(with_user.exc, Some(existing))
          ELSE
          LET with_both == add_message(with_user.value, "assistant",
                                       llm_response.value.content)
          IN IF with_both.raised
             THEN failure(with_both.exc, Some(with_user.value))
             ELSE [raised |-> FALSE,
                   value |-> [success |-> TRUE,
                              response |-> llm_response.value.content,
                              retrieval_results |-> search_results.value,
                              context_used |-> context],
                   conversation |-> Some(with_both.value),
                   llm_calls |-> <<call>>,
                   retrievals |-> <<retrieval(query)>>]

process_query(query, conversation, client, search, api) ==
    rag_answer(query, conversation, retrieve_documents(query, 5, 0, search),
               generate_response(client, api))

\* ------------------------------------------------------------------ Agent
ConversationId == "conv-1"

\* _generate_response_with_tools, loop body for one ToolResult other than a
\* successful github_search_with_content: the context parts it contributes
ContextParts(result) ==
    IF ~result.success \/ result.result = None THEN <<>>
    ELSE IF result.tool_name = "document_search"
    THEN LET top == Prefix(result.result.results, 3) IN
         [i \in DOMAIN top |->
             <<"Search Result ", ToString(i), ": ">>
             \o Prefix(top[i].content, 200) \o <<"...">>]
    ELSE IF result.tool_name = "text_analysis"
    THEN << <<"Text Analysis: ", ToString(result.result.word_count), " words, ",
              ToString(result.result.character_count), " characters">> >>
    ELSE IF result.tool_name = "github_search_with_content"
    THEN << <<"GitHub Search with Content: Found ",
              ToString(result.result.total_count),
              " total results, fetched content from ",
              ToString(result.result.files_with_content), " files">> >>
    ELSE <<>>

\* a str that is neither None nor empty
Truthy(opt) == ~opt.isNone /\ opt.v # <<>>

\* the context part of one result of github_search_with_content
GithubPart(i, github_result) ==
    LET content == github_result.content
        content_preview ==
            IF Truthy(content) /\ Len(content.v) > 500
            THEN Prefix(content.v, 500) \o <<"...">>
            ELSE IF Truthy(content) THEN content.v
            ELSE <<"No content available">>
    IN <<"GitHub Result ", ToString(i), ": ", github_result.title,
         "\nRepository: ", github_result.repository,
         "\nURL: ", github_result.url, "\nContent: ">> \o content_preview

\* the degraded responses without the exception text
DegradedToolResponse_generic(error) ==
    <<"I encountered an issue generating a response.">>
DegradedSimpleResponse_generic(error) ==
    <<"I apologize, but I encountered an issue generating a response. ",
      "Please try rephrasing your question or adding more context.">>

DegradedToolResponse(error) ==
    <<"I encountered an issue generating a response: ">> \o error
DegradedSimpleResponse(error) ==
    <<"I apologize, but I encountered an issue generating a response. ",
      "Please try rephrasing your question or adding more context. Error: ">>
    \o error

\* the tool context as the bare join of its parts
ToolContext_joined_only(tool_context_parts) == Join(tool_context_parts)

\* "\n\n".join(tool_context_parts) if tool_context_parts else the sentinel
ToolContext(tool_context_parts) ==
    IF tool_context_parts # <<>> THEN Join(tool_context_parts)
    ELSE <<"No tool results available.">>

\* _generate_response_with_tools after its loop over the tool results: the
\* RAG query, then the combined-context LLM call or the plain RAG answer.
\* Gives Raise(..) when the RAG query raises, else the response dict, the
\* conversation afterwards and the LLM calls made.
compose_response(user_input, tool_context_parts, tools_used, rag, llm_response) ==
    LET tool_context == ToolContext(tool_context_parts)
    IN IF rag.raised THEN rag
       ELSE
       LET rag_result == rag.value
           top == Prefix(rag_result.retrieval_results, 3)
           rag_context ==
               IF rag_result.success /\ rag_result.retrieval_results # <<>>
               THEN Join([i \in DOMAIN top |->
                            <<"Knowledge Base Document ", ToString(i), ": ">>
                            \o Prefix(top[i].content, 300) \o <<"...">>])
               ELSE <<>>
       IN IF tool_context_parts # <<>> \/ rag_context # <<>>
          THEN LET messages ==
                       << [role |-> "system",
                           content |-> <<"combined system prompt">>],
                          [role |-> "user",
                           content |->
                               <<"User Request: ">> \o user_input
                               \o <<"\n\nKnowledge Base Context:\n">>
                               \o (IF rag_context # <<>> THEN rag_context
                                   ELSE <<"No relevant documents found in knowledge base.">>)
                               \o <<"\n\nTool Results:\n">> \o tool_context] >>
                   call == [kind |-> "combined", raised |-> llm_response.raised,
                            error |-> IF llm_response.raised
                                      THEN Some(llm_response.exc) ELSE None,
                            retrieval_context |-> rag_context # <<>>,
                            messages |-> messages]
               IN [raised |-> FALSE,
                   value |->
                       IF ~llm_response.raised
                       THEN [response |-> llm_response.value.content,
                             tools_used |-> tools_used,
                             rag_results |-> rag_result.retrieval_results,
                             combined_context |-> TRUE]
                       ELSE [response |-> DegradedToolResponse(llm_response.exc),
                             tools_used |-> tools_used,
                             error |-> llm_response.exc],
                   rag_success |-> rag_result.success,
                   conversation |-> rag.conversation,
                   llm_calls |-> Append(rag.llm_calls, call),
                   retrievals |-> rag.retrievals]
          ELSE [raised |-> FALSE,
                value |->
                    IF rag_result.success
                    THEN [response |-> rag_result.response,
                          tools_used |-> tools_used,
                          rag_results |-> rag_result.retrieval_results]
                    ELSE [response |-> DegradedToolResponse(rag_result.error),
                          tools_used |-> tools_used,
                          error |-> rag_result.error],
                rag_success |-> rag_result.success,
                conversation |-> rag.conversation,
                llm_calls |-> rag.llm_calls,
                retrievals |-> rag.retrievals]

generate_response_tail(user_input, tool_context_parts, tools_used, conversation, client, search, api1, api2) ==
    compose_response(user_input, tool_context_parts, tools_used,
                     process_query(user_input, conversation, client, search, api1),
                     generate_response(client, api2))

\* _generate_simple_response making its direct LLM call whether or not the
\* RAG query succeeded
fallback_response_always_asking(user_input, rag, llm_response) ==
    IF rag.raised THEN rag
    ELSE
    LET rag_result == rag.value
        messages ==
            << [role |-> "system", content |-> <<"fallback system prompt">>],
               [role |-> "user", content |-> user_input] >>
        call == [kind |-> "fallback", raised |-> llm_response.raised,
                 error |-> IF llm_response.raised
                           THEN Some(llm_response.exc) ELSE None,
                 retrieval_context |-> FALSE, messages |-> messages]
    IN [raised |-> FALSE,
        value |->
            IF rag_result.success
            THEN [response |-> rag_result.response, tools_used |-> <<>>,
                  rag_results |-> rag_result.retrieval_results]
            ELSE IF ~llm_response.raised
            THEN [response |-> llm_response.value.content,
                  tools_used |-> <<>>, rag_results |-> <<>>,
                  fallback_response |-> TRUE]
            ELSE [response |-> DegradedSimpleResponse(llm_response.exc),
                  tools_used |-> <<>>, error |-> llm_response.exc,
                  fallback_response |-> TRUE],
        rag_success |-> rag_result.success,
        conversation |-> rag.conversation,
        llm_calls |-> Append(rag.llm_calls, call),
        retrievals |-> rag.retrievals]

\* _generate_simple_response after its RAG query: the RAG answer, or the
\* direct LLM call without retrieval context
fallback_response(user_input, rag, llm_response) ==
    IF rag.raised THEN rag
    ELSE
    LET rag_result == rag.value IN
    IF rag_result.success
    THEN [raised |-> FALSE,
          value |-> [response |-> rag_result.response, tools_used |-> <<>>,
                     rag_results |-> rag_result.retrieval_results],
          rag_success |-> TRUE,
          conversation |-> rag.conversation, llm_calls |-> rag.llm_calls,
          retrievals |-> rag.retrievals]
    ELSE LET messages ==
                 << [role |-> "system", content |-> <<"fallback system prompt">>],
                    [role |-> "user", content |-> user_input] >>
             call == [kind |-> "fallback", raised |-> llm_response.raised,
                      error |-> IF llm_response.raised
                                THEN Some(llm_response.exc) ELSE None,
                      retrieval_context |-> FALSE, messages |-> messages]
         IN [raised |-> FALSE,
             value |->
                 IF ~llm_response.raised
                 THEN [response |-> llm_response.value.content,
                       tools_used |-> <<>>, rag_results |-> <<>>,
                       fallback_response |-> TRUE]
                 ELSE [response |-> DegradedSimpleResponse(llm_response.exc),
                       tools_used |-> <<>>, error |-> llm_response.exc,
                       fallback_response |-> TRUE],
             rag_success |-> FALSE,
             conversation |-> rag.conversation,
             llm_calls |-> Append(rag.llm_calls, call),
             retrievals |-> rag.retrievals]

\* _generate_simple_response answering from the LLM alone
generate_simple_response_llm_only(user_input, conversation, client, search, api1, api2) ==
    fallback_response(user_input,
                      [raised |-> FALSE,
                       value |-> [success |-> FALSE, error |-> <<"no retrieval">>,
                                  retrieval_results |-> <<>>,
                                  context_used |-> <<>>],
                       conversation |-> conversation, llm_calls |-> <<>>,
                       retrievals |-> <<>>],
                      generate_response(client, api2))

generate_simple_response(user_input, conversation, client, search, api1, api2) ==
    fallback_response(user_input,
                      process_query(user_input, conversation, client, search, api1),
                      generate_response(client, api2))

\* process_request from "Add response to memory" on: generated is what the
\* body of the try block produced, Ok(response dict) or Raise(message).
\* Gives what process_request hands to its caller and the memory afterwards.
\* process_request without its except clause
process_request_return_propagating(memory, generated, elapsed, now) ==
    IF ~generated.raised
    THEN LET response_result == generated.value
             after == add_to_short_term(memory,
                          [type |-> "agent_response",
                           content |-> response_result.response,
                           conversation_id |-> ConversationId,
                           tools_used |-> response_result.tools_used], now)
         IN [raised |-> FALSE,
             value |-> [success |-> TRUE,
                        response |-> response_result.response,
                        tools_used |-> response_result.tools_used,
                        conversation_id |-> ConversationId,
                        execution_time |-> elapsed,
                        memory_items |-> Len(after.short_term_memory)],
             memory |-> after]
    ELSE [raised |-> TRUE, exc |-> generated.exc, memory |-> memory]

process_request_return(memory, generated, elapsed, now) ==
    IF ~generated.raised
    THEN LET response_result == generated.value
             after == add_to_short_term(memory,
                          [type |-> "agent_response",
                           content |-> response_result.response,
                           conversation_id |-> ConversationId,
                           tools_used |-> response_result.tools_used], now)
         IN [raised |-> FALSE,
             value |-> [success |-> TRUE,
                        response |-> response_result.response,
                        tools_used |-> response_result.tools_used,
                        conversation_id |-> ConversationId,
                        execution_time |-> elapsed,
                        memory_items |-> Len(after.short_term_memory)],
             memory |-> after]
    ELSE [raised |-> FALSE,
          value |-> [success |-> FALSE, error |-> generated.exc,
                     execution_time |-> elapsed,
                     conversation_id |-> ConversationId],
          memory |-> add_to_short_term(memory,
                         [type |-> "error", content |-> generated.exc,
                          conversation_id |-> ConversationId], now)]

\* ------------------------------------------------------------------ inputs
\* user utterances: no keyword; an information-seeking keyword; a code keyword
\* together with an analysis keyword; whitespace only
Utterances ==
    {<<"h", "i">>,
     <<"w", "h", "a", "t">>,
     <<"c", "o", "u", "n", "t", " ", "c", "o", "d", "e">>,
     <<" ">>}

\* the text of a fetched file or of a document handed to the knowledge base
DocText == <<"d", "e", "f", " ", "f">>

\* what the OpenAI API may answer to one call
ApiOutcomes == {Ok(<<"answer">>), Ok(<<>>), Raise(<<"connection refused">>)}

GithubItem(title, content) ==
    [title |-> title, url |-> "https://github.com/o/r/blob/main/f.py",
     repository |-> "o/r", path |-> "f.py", score |-> 1, content |-> content]
\* what the GitHub API (search, then content fetch) may answer to one call
GithubOutcomes ==
    {Raise(<<"GitHub API error: 503 - unavailable">>),
     Ok(<<>>),
     Ok(<< GithubItem("f.py", Some(DocText)) >>),
     Ok(<< GithubItem("g.py", None), GithubItem("f.py", Some(DocText)) >>)}

Env(now, elapsed, search, nchunks, add_ok, gh, custom) ==
    [now |-> now, elapsed |-> elapsed, search |-> search, nchunks |-> nchunks,
     add_ok |-> add_ok, gh |-> gh, custom |-> custom]

\* the answers of the collaborators that a call of the tool can depend on
ToolEnvs(tool_name, now) ==
    CASE tool_name = "document_search" ->
           {Env(now, e, s, 1, TRUE, Ok(<<>>), "ok") :
                e \in Elapsed, s \in SearchOutcomes}
      [] tool_name = "add_to_knowledge_base" ->
           {Env(now, e[1], Ok(<<>>), e[2], e[3], Ok(<<>>), "ok") :
                e \in Elapsed \X (1..MaxChunks) \X BOOLEAN}
      [] tool_name = "github_search_with_content" ->
           {Env(now, e, Ok(<<>>), 1, TRUE, g, "ok") :
                e \in Elapsed, g \in GithubOutcomes}
      [] tool_name = "custom_tool" ->
           {Env(now, e, Ok(<<>>), 1, TRUE, Ok(<<>>), c) :
                e \in Elapsed, c \in {"ok", "raise"}}
      [] OTHER -> {Env(now, e, Ok(<<>>), 1, TRUE, Ok(<<>>), "ok") : e \in Elapsed}

\* calls of ToolManager.execute_tool made by other callers than the turn (the
\* workflows, the HTTP layer): well-formed and malformed arguments, an
\* unknown name
DirectCalls ==
    {[tool_name |-> "document_search", kwargs |-> [query |-> <<"w", "h", "a", "t">>, k |-> 5]],
     [tool_name |-> "text_analysis",
      kwargs |-> [text |-> <<"a", " ", "b">>, analysis_type |-> "detailed"]],
     [tool_name |-> "text_analysis",
      kwargs |-> [text |-> <<"a", " ", "b">>, analysis_type |-> "sentiment"]],
     [tool_name |-> "text_analysis", kwargs |-> [query |-> <<"a", " ", "b">>]],
     [tool_name |-> "add_to_knowledge_base",
      kwargs |-> [content |-> <<>>, title |-> <<"notes">>]],
     [tool_name |-> "add_to_knowledge_base",
      kwargs |-> [content |-> DocText, title |-> <<"notes">>]],
     [tool_name |-> "custom_tool", kwargs |-> [query |-> <<"w", "h", "a", "t">>]],
     [tool_name |-> "web_search", kwargs |-> [query |-> <<"w", "h", "a", "t">>]]}

\* the tools a caller unregisters or disables
RegistryTargets == {"document_search", "add_to_knowledge_base"}

\* ------------------------------------------------------------------ state
VARIABLES
    tools,              \* ToolManager.tools: name -> [enabled]
    execution_history,  \* ToolManager.execution_history
    index_chunks,       \* the number of chunks the vector index stores
    document_manager,   \* the DocumentManager of the knowledge-base tool, or None
    memory,             \* Agent.memory
    conversation,       \* the agent's conversation in the ConversationManager
    llm_client,         \* whether LLMManager.client was initialised
    clock,              \* the clock the timestamps are read from
    pc,                 \* where the turn in progress stands ("idle": none)
    turn,               \* the local variables of the turn
    returned,           \* what the last process_request returned, or None
    last_call,          \* the last call of execute_tool, or None
    calls               \* counts: turns started, execute_tool calls, ...

vars == <<tools, execution_history, index_chunks, document_manager, memory,
          conversation, llm_client, clock, pc, turn, returned, last_call, calls>>

Ext == [index_chunks |-> index_chunks, document_manager |-> document_manager]

DefaultToolNames(github_token) ==
    {"document_search", "add_to_knowledge_base", "text_analysis"}
    \cup (IF github_token
          THEN {"github_search", "github_code_search", "github_search_with_content"}
          ELSE {})

\* Agent._register_default_tools
register_default_tools(github_token) ==
    [n \in DefaultToolNames(github_token) |-> [enabled |-> TRUE]]

NewDocumentManager ==
    [processed_documents |-> <<>>,
     document_stats |-> [total_documents |-> 0, total_chunks |-> 0,
                         last_updated |-> None]]

NoTurn ==
    [user_input |-> <<>>, use_tools |-> FALSE, path |-> "none",
     recommended_tools |-> <<>>, tool_results |-> <<>>, i |-> 0, gh_i |-> 0,
     tool_context_parts |-> <<>>, tools_used |-> <<>>, generated |-> None,
     rag |-> "none", llm_calls |-> <<>>, retrievals |-> <<>>]

Init ==
    /\ \E github_token \in BOOLEAN : tools = register_default_tools(github_token)
    /\ execution_history = <<>>
    /\ index_chunks = 0
    /\ document_manager \in {None, Some(NewDocumentManager)}
    /\ memory = NewMemory(0)
    /\ conversation = None
    /\ llm_client \in BOOLEAN
    /\ clock = 1
    /\ pc = "idle"
    /\ turn = NoTurn
    /\ returned = None
    /\ last_call = None
    /\ calls = [turns |-> 0, direct |-> 0, registry |-> 0,
                execute_tool |-> 0, invoked |-> 0]

\* ------------------------------------------------------------------ actions
\* the observation of one execute_tool call
Observed(tool_name, kwargs, reg, hist, r) ==
    Some([tool_name |-> tool_name, parameters |-> kwargs,
          kb_changed |-> r.ext # Ext,
          registered |-> tool_name \in DOMAIN reg,
          enabled |-> tool_name \in DOMAIN reg /\ reg[tool_name].enabled,
          raised |-> r.raised, result |-> r.result, invoked |-> r.invoked,
          body_exc |-> r.body_exc,
          appended |-> Len(r.history) - Len(hist)])

Counted(r) ==
    [calls EXCEPT !.execute_tool = @ + 1,
                  !.invoked = IF r.invoked THEN @ + 1 ELSE @]

\* what one execute_tool call leaves behind: the history, the knowledge base
Called(tool_name, kwargs, r) ==
    /\ execution_history' = r.history
    /\ index_chunks' = r.ext.index_chunks
    /\ document_manager' = r.ext.document_manager
    /\ last_call' = Observed(tool_name, kwargs, tools, execution_history, r)

\* ToolManager.register_tool with a tool of the caller's own
RegisterTool ==
    /\ pc = "idle" /\ calls.registry < MaxRegistryOps
    /\ tools' = DictSet(tools, "custom_tool", [enabled |-> TRUE])
    /\ calls' = [calls EXCEPT !.registry = @ + 1]
    /\ UNCHANGED <<execution_history, index_chunks, document_manager, memory,
                   conversation, llm_client, clock, pc, turn, returned, last_call>>

\* ToolManager.unregister_tool
UnregisterTool(tool_name) ==
    /\ pc = "idle" /\ calls.registry < MaxRegistryOps
    /\ tool_name \in DOMAIN tools
    /\ tools' = [n \in DOMAIN tools \ {tool_name} |-> tools[n]]
    /\ calls' = [calls EXCEPT !.registry = @ + 1]
    /\ UNCHANGED <<execution_history, index_chunks, document_manager, memory,
                   conversation, llm_client, clock, pc, turn, returned, last_call>>

\* a caller clears the enabled flag of a registered tool
DisableTool(tool_name) ==
    /\ pc = "idle" /\ calls.registry < MaxRegistryOps
    /\ tool_name \in DOMAIN tools
    /\ tools' = [tools EXCEPT ![tool_name].enabled = FALSE]
    /\ calls' = [calls EXCEPT !.registry = @ + 1]
    /\ UNCHANGED <<execution_history, index_chunks, document_manager, memory,
                   conversation, llm_client, clock, pc, turn, returned, last_call>>

\* a call of ToolManager.execute_tool from outside a turn
DirectCall(c, env) ==
    /\ pc = "idle" /\ calls.direct < MaxDirectCalls
    /\ Called(c.tool_name, c.kwargs,
              execute_tool(tools, execution_history, Ext, c.tool_name, c.kwargs, env))
    /\ calls' = [Counted(execute_tool(tools, execution_history, Ext, c.tool_name,
                                      c.kwargs, env))
                   EXCEPT !.direct = @ + 1]
    /\ clock' = clock + 1
    /\ UNCHANGED <<tools, memory, conversation, llm_client, pc, turn, returned>>

\* process_request entered without the memory write
StartTurn_without_memory(user_input, use_tools) ==
    /\ pc = "idle" /\ calls.turns < MaxTurns
    /\ turn' = [NoTurn EXCEPT !.user_input = user_input, !.use_tools = use_tools]
    /\ pc' = "decide"
    /\ returned' = None
    /\ clock' = clock + 1
    /\ calls' = [calls EXCEPT !.turns = @ + 1]
    /\ UNCHANGED <<tools, execution_history, index_chunks, document_manager,
                   memory, conversation, llm_client, last_call>>

\* process_request: the user input goes to short-term memory
StartTurn(user_input, use_tools) ==
    /\ pc = "idle" /\ calls.turns < MaxTurns
    /\ memory' = add_to_short_term(memory,
                     [type |-> "user_input", content |-> user_input,
                      conversation_id |-> ConversationId], clock)
    /\ turn' = [NoTurn EXCEPT !.user_input = user_input, !.use_tools = use_tools]
    /\ pc' = "decide"
    /\ returned' = None
    /\ clock' = clock + 1
    /\ calls' = [calls EXCEPT !.turns = @ + 1]
    /\ UNCHANGED <<tools, execution_history, index_chunks, document_manager,
                   conversation, llm_client, last_call>>

\* process_request consulting the policy whatever use_tools says
Decide_ignoring_use_tools ==
    /\ pc = "decide"
    /\ LET tool_decision == decide_tool_usage(turn.user_input) IN
       IF tool_decision.use_tools
       THEN /\ turn' = [turn EXCEPT
                          !.recommended_tools = tool_decision.recommended_tools,
                          !.path = "tools"]
            /\ pc' = "tools"
       ELSE /\ turn' = [turn EXCEPT !.path = "simple"]
            /\ pc' = "simple"
    /\ UNCHANGED <<tools, execution_history, index_chunks, document_manager,
                   memory, conversation, llm_client, clock, returned, last_call,
                   calls>>

\* process_request: the tool decision
Decide ==
    /\ pc = "decide"
    /\ LET tool_decision == decide_tool_usage(turn.user_input) IN
       IF turn.use_tools /\ tool_decision.use_tools
       THEN /\ turn' = [turn EXCEPT
                          !.recommended_tools = tool_decision.recommended_tools,
                          !.path = "tools"]
            /\ pc' = "tools"
       ELSE /\ turn' = [turn EXCEPT !.path = "simple"]
            /\ pc' = "simple"
    /\ UNCHANGED <<tools, execution_history, index_chunks, document_manager,
                   memory, conversation, llm_client, clock, returned, last_call,
                   calls>>

\* one iteration of _execute_recommended_tools that also notes the result in
\* short-term memory
Executed_remembering(tool_config, r) ==
       LET results == Append(turn.tool_results, r.result)
           last == Len(results) = Len(turn.recommended_tools)
           noted == add_to_short_term(memory,
                        [type |-> "tool_result", content |-> <<tool_config.tool_name>>,
                         conversation_id |-> ConversationId], clock)
       IN /\ Called(tool_config.tool_name, tool_config.parameters, r)
          /\ calls' = Counted(r)
          /\ IF r.raised
             THEN /\ turn' = [turn EXCEPT !.generated = Some(Raise(r.result.error.v))]
                  /\ pc' = "respond"
                  /\ memory' = noted
             ELSE /\ turn' = [turn EXCEPT !.tool_results = results,
                                          !.i = IF last THEN 1 ELSE 0]
                  /\ pc' = IF last THEN "compose" ELSE "tools"
                  /\ memory' = IF last
                               THEN update_working_memory(noted,
                                        "recent_tool_results", results, clock)
                               ELSE noted

\* one iteration of _execute_recommended_tools that gives the turn up when
\* the tool failed
Executed_aborting(tool_config, r) ==
       LET results == Append(turn.tool_results, r.result)
           last == Len(results) = Len(turn.recommended_tools)
       IN /\ Called(tool_config.tool_name, tool_config.parameters, r)
          /\ calls' = Counted(r)
          /\ IF r.raised \/ ~r.result.success
             THEN /\ turn' = [turn EXCEPT !.generated = Some(Raise(r.result.error.v))]
                  /\ pc' = "respond"
                  /\ memory' = memory
             ELSE /\ turn' = [turn EXCEPT !.tool_results = results,
                                          !.i = IF last THEN 1 ELSE 0]
                  /\ pc' = IF last THEN "compose" ELSE "tools"
                  /\ memory' = IF last
                               THEN update_working_memory(memory,
                                        "recent_tool_results", results, clock)
                               ELSE memory

\* the effects of one iteration of _execute_recommended_tools
Executed(tool_config, r) ==
       LET results == Append(turn.tool_results, r.result)
           last == Len(results) = Len(turn.recommended_tools)
       IN /\ Called(tool_config.tool_name, tool_config.parameters, r)
          /\ calls' = Counted(r)
          /\ IF r.raised
             THEN /\ turn' = [turn EXCEPT !.generated = Some(Raise(r.result.error.v))]
                  /\ pc' = "respond"
                  /\ memory' = memory
             ELSE /\ turn' = [turn EXCEPT !.tool_results = results,
                                          !.i = IF last THEN 1 ELSE 0]
                  /\ pc' = IF last THEN "compose" ELSE "tools"
                  /\ memory' = IF last
                               THEN update_working_memory(memory,
                                        "recent_tool_results", results, clock)
                               ELSE memory

\* _execute_recommended_tools: one iteration; after the last one
\* process_request stores the results in working memory
ExecuteRecommended ==
    /\ pc = "tools"
    /\ \E env \in ToolEnvs(turn.recommended_tools[Len(turn.tool_results) + 1].tool_name,
                           clock) :
           Executed(turn.recommended_tools[Len(turn.tool_results) + 1],
                    execute_tool(tools, execution_history, Ext,
                        turn.recommended_tools[Len(turn.tool_results) + 1].tool_name,
                        turn.recommended_tools[Len(turn.tool_results) + 1].parameters,
                        env))
    /\ clock' = clock + 1
    /\ UNCHANGED <<tools, conversation, llm_client, returned>>

\* the loop body naming every tool result in tools_used, failed ones too
Compose_naming_every_result ==
    /\ pc = "compose" /\ turn.i <= Len(turn.tool_results)
    /\ LET result == turn.tool_results[turn.i]
           has_files == /\ result.success
                        /\ result.tool_name = "github_search_with_content"
                        /\ result.result # None
                        /\ result.result.results # <<>>
       IN /\ turn' = [turn EXCEPT
                        !.tools_used = Append(@, result.tool_name),
                        !.tool_context_parts = @ \o ContextParts(result),
                        !.i = IF has_files THEN @ ELSE @ + 1,
                        !.gh_i = IF has_files THEN 1 ELSE 0]
          /\ pc' = IF has_files THEN "compose_github" ELSE "compose"
    /\ UNCHANGED <<tools, execution_history, index_chunks, document_manager,
                   memory, conversation, llm_client, clock, returned, last_call,
                   calls>>

\* _generate_response_with_tools: the loop body for the next tool result (for
\* github_search_with_content, up to its per-file loop)
Compose ==
    /\ pc = "compose" /\ turn.i <= Len(turn.tool_results)
    /\ LET result == turn.tool_results[turn.i]
           has_files == /\ result.success
                        /\ result.tool_name = "github_search_with_content"
                        /\ result.result # None
                        /\ result.result.results # <<>>
       IN /\ turn' = [turn EXCEPT
                        !.tools_used = IF result.success
                                       THEN Append(@, result.tool_name) ELSE @,
                        !.tool_context_parts = @ \o ContextParts(result),
                        !.i = IF has_files THEN @ ELSE @ + 1,
                        !.gh_i = IF has_files THEN 1 ELSE 0]
          /\ pc' = IF has_files THEN "compose_github" ELSE "compose"
    /\ UNCHANGED <<tools, execution_history, index_chunks, document_manager,
                   memory, conversation, llm_client, clock, returned, last_call,
                   calls>>

\* the per-file step leaving a result out of the context when its insert
\* into the knowledge base failed
ComposeGithub_dropping_failed(env) ==
    /\ pc = "compose_github"
    /\ LET github_results == Prefix(turn.tool_results[turn.i].result.results, 3)
           github_result == github_results[turn.gh_i]
           content == github_result.content
           kwargs == [content |-> IF Truthy(content) THEN content.v ELSE <<>>,
                      title |-> <<"GitHub: ", github_result.repository, "/",
                                  github_result.title>>,
                      source |-> "github",
                      metadata |->
                          [repository |-> github_result.repository,
                           url |-> github_result.url,
                           language |-> detect_programming_language(
                                            IF Truthy(content) THEN content.v
                                            ELSE <<>>),
                           search_query |-> turn.user_input]]
           last == turn.gh_i = Len(github_results)
       IN /\ IF Truthy(content)
             THEN /\ Called("add_to_knowledge_base", kwargs,
                            execute_tool(tools, execution_history, Ext,
                                         "add_to_knowledge_base", kwargs, env))
                  /\ calls' = Counted(execute_tool(tools, execution_history, Ext,
                                          "add_to_knowledge_base", kwargs, env))
                  /\ clock' = clock + 1
             ELSE UNCHANGED <<execution_history, index_chunks, document_manager,
                              last_call, calls, clock>>
          /\ turn' = [turn EXCEPT
                        !.tool_context_parts =
                            IF Truthy(content)
                               /\ ~execute_tool(tools, execution_history, Ext,
                                       "add_to_knowledge_base", kwargs, env).result.success
                            THEN @
                            ELSE Append(@, GithubPart(turn.gh_i, github_result)),
                        !.gh_i = IF last THEN 0 ELSE @ + 1,
                        !.i = IF last THEN @ + 1 ELSE @]
          /\ pc' = IF last THEN "compose" ELSE "compose_github"
    /\ UNCHANGED <<tools, memory, conversation, llm_client, returned>>

\* _generate_response_with_tools: one of the top three GitHub results; a
\* result with content is first added to the knowledge base
ComposeGithub(env) ==
    /\ pc = "compose_github"
    /\ LET github_results == Prefix(turn.tool_results[turn.i].result.results, 3)
           github_result == github_results[turn.gh_i]
           content == github_result.content
           kwargs == [content |-> IF Truthy(content) THEN content.v ELSE <<>>,
                      title |-> <<"GitHub: ", github_result.repository, "/",
                                  github_result.title>>,
                      source |-> "github",
                      metadata |->
                          [repository |-> github_result.repository,
                           url |-> github_result.url,
                           language |-> detect_programming_language(
                                            IF Truthy(content) THEN content.v
                                            ELSE <<>>),
                           search_query |-> turn.user_input]]
           last == turn.gh_i = Len(github_results)
       IN /\ IF Truthy(content)
             THEN /\ Called("add_to_knowledge_base", kwargs,
                            execute_tool(tools, execution_history, Ext,
                                         "add_to_knowledge_base", kwargs, env))
                  /\ calls' = Counted(execute_tool(tools, execution_history, Ext,
                                          "add_to_knowledge_base", kwargs, env))
                  /\ clock' = clock + 1
             ELSE UNCHANGED <<execution_history, index_chunks, document_manager,
                              last_call, calls, clock>>
          /\ turn' = [turn EXCEPT
                        !.tool_context_parts =
                            Append(@, GithubPart(turn.gh_i, github_result)),
                        !.gh_i = IF last THEN 0 ELSE @ + 1,
                        !.i = IF last THEN @ + 1 ELSE @]
          /\ pc' = IF last THEN "compose" ELSE "compose_github"
    /\ UNCHANGED <<tools, memory, conversation, llm_client, returned>>

RagStatus(g) == IF g.raised THEN "raised"
                ELSE IF g.rag_success THEN "ok" ELSE "failed"

Generated(g) ==
    [turn EXCEPT !.generated = Some(IF g.raised THEN Raise(g.exc) ELSE Ok(g.value)),
                 !.rag = RagStatus(g), !.llm_calls = g.llm_calls,
                 !.retrievals = g.retrievals]

\* _generate_response_with_tools: from the RAG query to the response dict
GenerateWithTools(search, api1, api2) ==
    /\ pc = "compose" /\ turn.i > Len(turn.tool_results)
    /\ LET g == generate_response_tail(turn.user_input, turn.tool_context_parts,
                    turn.tools_used, conversation, llm_client, search, api1, api2)
       IN /\ turn' = Generated(g)
          /\ conversation' = g.conversation
    /\ pc' = "respond"
    /\ UNCHANGED <<tools, execution_history, index_chunks, document_manager,
                   memory, llm_client, clock, returned, last_call, calls>>

\* _generate_simple_response
GenerateSimple(search, api1, api2) ==
    /\ pc = "simple"
    /\ LET g == generate_simple_response(turn.user_input, conversation,
                    llm_client, search, api1, api2)
       IN /\ turn' = Generated(g)
          /\ conversation' = g.conversation
    /\ pc' = "respond"
    /\ UNCHANGED <<tools, execution_history, index_chunks, document_manager,
                   memory, llm_client, clock, returned, last_call, calls>>

\* process_request returning its result without the memory write
Respond_unremembered(elapsed) ==
    /\ pc = "respond"
    /\ LET r == process_request_return(memory, turn.generated.v, elapsed, clock)
       IN /\ memory' = memory
          /\ returned' = Some(IF r.raised THEN [raised |-> TRUE, exc |-> r.exc]
                              ELSE [raised |-> FALSE, value |-> r.value])
    /\ pc' = "idle"
    /\ clock' = clock + 1
    /\ UNCHANGED <<tools, execution_history, index_chunks, document_manager,
                   conversation, llm_client, turn, last_call, calls>>

\* process_request: the response (or the error) goes to short-term memory and
\* the structured result to the caller
Respond(elapsed) ==
    /\ pc = "respond"
    /\ LET r == process_request_return(memory, turn.generated.v, elapsed, clock)
       IN /\ memory' = r.memory
          /\ returned' = Some(IF r.raised THEN [raised |-> TRUE, exc |-> r.exc]
                              ELSE [raised |-> FALSE, value |-> r.value])
    /\ pc' = "idle"
    /\ clock' = clock + 1
    /\ UNCHANGED <<tools, execution_history, index_chunks, document_manager,
                   conversation, llm_client, turn, last_call, calls>>

Next ==
    \/ RegisterTool
    \/ \E n \in RegistryTargets : UnregisterTool(n)
    \/ \E n \in RegistryTargets : DisableTool(n)
    \/ \E c \in DirectCalls : \E env \in ToolEnvs(c.tool_name, clock) :
           DirectCall(c, env)
    \/ \E u \in Utterances, b \in BOOLEAN : StartTurn(u, b)
    \/ Decide
    \/ ExecuteRecommended
    \/ Compose
    \/ \E env \in ToolEnvs("add_to_knowledge_base", clock) : ComposeGithub(env)
    \/ \E s \in SearchOutcomes, a1 \in ApiOutcomes, a2 \in ApiOutcomes :
           GenerateWithTools(s, a1, a2)
    \/ \E s \in SearchOutcomes, a1 \in ApiOutcomes, a2 \in ApiOutcomes :
           GenerateSimple(s, a1, a2)
    \/ \E e \in Elapsed : Respond(e)

Spec == Init /\ [][Next]_vars

\* ------------------------------------------------------------------ memory alone
\* AgentMemory under a long run of add_to_short_term calls; the item added at
\* clock value t carries timestamp t
InitMem ==
    /\ tools = register_default_tools(FALSE)
    /\ execution_history = <<>>
    /\ index_chunks = 0
    /\ document_manager = None
    /\ memory = NewMemory(0)
    /\ conversation = None
    /\ llm_client = TRUE
    /\ clock = 1
    /\ pc = "idle"
    /\ turn = NoTurn
    /\ returned = None
    /\ last_call = None
    /\ calls = [turns |-> 0, direct |-> 0, registry |-> 0,
                execute_tool |-> 0, invoked |-> 0]

Remember ==
    /\ clock <= MaxAppends
    /\ memory' = add_to_short_term(memory,
                     [type |-> "user_input", content |-> <<"h", "i">>,
                      conversation_id |-> ConversationId], clock)
    /\ clock' = clock + 1
    /\ UNCHANGED <<tools, execution_history, index_chunks, document_manager,
                   conversation, llm_client, pc, turn, returned, last_call, calls>>

NextMem == Remember

SpecMem == InitMem /\ [][NextMem]_vars

\* ------------------------------------------------------------------ retriever alone
\* DocumentRetriever.retrieve_documents called with every combination of a
\* query, a k, a threshold and a store content.  Scores are in percent;
\* the store ranks its results 0, 1, ... in the order it returns them.
ScoreLevels == {0, 50, 100}
Thresholds == {-10, 0, 50, 70, 100}
RetrieverQueries == {<<>>, <<" ">>, <<"h", "i">>}
Scored(i, score) == [Hit(i) EXCEPT !.score = score]
StoredLists ==
    UNION {{[i \in 1..n |-> Scored(i, f[i])] : f \in [1..n -> ScoreLevels]} :
           n \in 0..MaxStored}
StoreOutcomes == {Ok(h) : h \in StoredLists} \cup {Raise(<<"index unavailable">>)}

Retrieve(query, k, min_score, search) ==
    /\ last_call' = Some([query |-> query, k |-> k, min_score |-> min_score,
                          search |-> search])
    /\ returned' = Some(retrieve_documents(query, k, min_score, search))
    /\ UNCHANGED <<tools, execution_history, index_chunks, document_manager,
                   memory, conversation, llm_client, clock, pc, turn, calls>>

NextRetriever ==
    \E query \in RetrieverQueries, k \in 1..MaxStored, min_score \in Thresholds,
       search \in StoreOutcomes :
        Retrieve(query, k, min_score, search)

SpecRetriever == InitMem /\ [][NextRetriever]_vars

\* ------------------------------------------------------------------ chunker alone
\* TextChunker.chunk_text for each chunking strategy.  The splitter is the
\* library's: the recursive and the character splitter strip every piece and
\* give no empty one; the token splitter decodes consecutive token windows
\* as they are, so a window of whitespace tokens is a whitespace-only piece.
ChunkingStrategies == {"recursive", "character", "token"}
StrippedPieces == {<<"a">>, <<"b">>, <<"a", " ", "b">>}
TokenPieces == {<<"a">>, <<"b">>, <<"\n">>, <<" ", "b">>}
PieceLists(kinds) == UNION {[1..n -> kinds] : n \in 1..MaxPieces}

\* the pieces one after the other: the text a token splitter without overlap
\* was given
Concat(parts) ==
    LET F[i \in 0..Len(parts)] == IF i = 0 THEN <<>> ELSE F[i - 1] \o parts[i]
    IN F[Len(parts)]

\* "\n".join(parts): a text the other splitters cut into these pieces
JoinLines(parts) ==
    LET F[i \in 0..Len(parts)] ==
            IF i = 0 THEN <<>>
            ELSE IF i = 1 THEN parts[1]
            ELSE F[i - 1] \o <<"\n">> \o parts[i]
    IN F[Len(parts)]

\* a text with what self._splitter.split_text(text) gives for it (nothing is
\* asked of the splitter for a blank text)
ChunkerInputs ==
    {[strategy |-> st, text |-> t, pieces |-> <<>>] :
        st \in ChunkingStrategies, t \in {<<>>, <<" ">>, <<"\n", " ">>}}
    \cup {[strategy |-> "token", text |-> Concat(ps), pieces |-> ps] :
             ps \in PieceLists(TokenPieces)}
    \cup {[strategy |-> st, text |-> JoinLines(ps), pieces |-> ps] :
             st \in {"recursive", "character"}, ps \in PieceLists(StrippedPieces)}

Chunk(input) ==
    /\ last_call' = Some(input)
    /\ returned' = Some(chunk_text(input.text, input.pieces, "doc"))
    /\ UNCHANGED <<tools, execution_history, index_chunks, document_manager,
                   memory, conversation, llm_client, clock, pc, turn, calls>>

NextChunker == \E input \in ChunkerInputs : Chunk(input)

SpecChunker == InitMem /\ [][NextChunker]_vars

\* ------------------------------------------------------------------ chunking configuration
\* The three constructors that take a chunk size and a chunk overlap.
ChunkSizes == 0..MaxChunkSize
ChunkOverlaps == (0 - 1)..(MaxChunkSize + 1)

\* VectorStoreConfig(chunk_size=..., chunk_overlap=...): the two Field
\* constraints gt=0 and ge=0; the class has no validator over both fields
VectorStoreConfig(chunk_size, chunk_overlap) ==
    IF chunk_size > 0 /\ chunk_overlap >= 0
    THEN Ok([chunk_size |-> chunk_size, chunk_overlap |-> chunk_overlap])
    ELSE Raise(<<"ValidationError">>)

\* the constructor of the library's splitters, called by _create_splitter: it
\* refuses a chunk overlap larger than the chunk size
TextSplitter_init(chunk_size, chunk_overlap) ==
    IF chunk_overlap > chunk_size
    THEN Raise(<<"Got a larger chunk overlap than chunk size">>)
    ELSE Ok([chunk_size |-> chunk_size, chunk_overlap |-> chunk_overlap])

\* TextChunker.__init__: stores its arguments and creates the splitter
TextChunker_init(strategy, chunk_size, chunk_overlap) ==
    IF TextSplitter_init(chunk_size, chunk_overlap).raised
    THEN TextSplitter_init(chunk_size, chunk_overlap)
    ELSE Ok([strategy |-> strategy, chunk_size |-> chunk_size,
             chunk_overlap |-> chunk_overlap])

\* DocumentProcessor.__init__(config): its chunker
DocumentProcessor_init(config) ==
    TextChunker_init("recursive", config.chunk_size, config.chunk_overlap)

\* a VectorStoreConfig is constructed; last_call keeps the outcome
NewVectorStoreConfig(chunk_size, chunk_overlap) ==
    /\ last_call' = Some(VectorStoreConfig(chunk_size, chunk_overlap))
    /\ UNCHANGED <<tools, execution_history, index_chunks, document_manager,
                   memory, conversation, llm_client, clock, pc, turn, returned,
                   calls>>

\* a DocumentProcessor is constructed from the configuration that exists;
\* returned keeps the outcome for its chunker
NewDocumentProcessor ==
    /\ last_call # None /\ ~last_call.v.raised
    /\ returned' = Some(DocumentProcessor_init(last_call.v.value))
    /\ UNCHANGED <<tools, execution_history, index_chunks, document_manager,
                   memory, conversation, llm_client, clock, pc, turn, last_call,
                   calls>>

\* a TextChunker is constructed directly
NewTextChunker(strategy, chunk_size, chunk_overlap) ==
    /\ returned' = Some(TextChunker_init(strategy, chunk_size, chunk_overlap))
    /\ UNCHANGED <<tools, execution_history, index_chunks, document_manager,
                   memory, conversation, llm_client, clock, pc, turn, last_call,
                   calls>>

NextChunkConfig ==
    \/ \E chunk_size \in ChunkSizes, chunk_overlap \in ChunkOverlaps :
           NewVectorStoreConfig(chunk_size, chunk_overlap)
    \/ NewDocumentProcessor
    \/ \E strategy \in ChunkingStrategies, chunk_size \in ChunkSizes \ {0},
          chunk_overlap \in ChunkOverlaps \ {0 - 1} :
           NewTextChunker(strategy, chunk_size, chunk_overlap)

SpecChunkConfig == InitMem /\ [][NextChunkConfig]_vars

\* ------------------------------------------------------------------ repository search tools alone
\* The three GitHub tools with their quota counters, called directly; the
\* clock counts seconds.  tools holds the tool objects, last_call what the
\* last execute did.
GitHubToolNames == {"github_search", "github_code_search", "github_search_with_content"}

\* 5000 requests with a token, 60 without
FullQuota(github_token) == IF github_token THEN 5000 ELSE 60

\* __init__ of the three tools at time now
GitHubTool_init(github_token, now) ==
    [enabled |-> TRUE, github_token |-> github_token,
     rate_limit_remaining |-> FullQuota(github_token), rate_limit_reset |-> now]

\* what the GitHub API answers to one request: a status, the two rate-limit
\* headers (or none), the items
GitHubResponses ==
    [status : {200, 503},
     remaining : {None, Some(0), Some(10)},
     reset_in : {None, Some(3600)},
     items : {<<>>, << GithubItem("f.py", Some(DocText)) >>}]

\* GitHubSearchTool._check_rate_limit: the tool afterwards and the answer
check_rate_limit(tool, now) ==
    IF now >= tool.rate_limit_reset
    THEN [tool |-> [tool EXCEPT !.rate_limit_remaining = FullQuota(tool.github_token),
                                !.rate_limit_reset = now + 3600],
          ok |-> FullQuota(tool.github_token) > 0]
    ELSE [tool |-> tool, ok |-> tool.rate_limit_remaining > 0]

\* GitHubSearchTool._perform_search: the tool after the request
perform_search(tool, now, response) ==
    [tool EXCEPT
       !.rate_limit_remaining =
           IF response.remaining.isNone THEN 0 ELSE response.remaining.v,
       !.rate_limit_reset =
           IF response.reset_in.isNone THEN now ELSE now + response.reset_in.v]

\* GitHubSearchTool.execute (GitHubCodeSearchTool.execute ends in it): the
\* ToolResult, the tool afterwards, the quota the check saw and whether a
\* network request was made
GitHubSearchTool_execute(tool_name, tool, search_type, now, response) ==
    IF search_type \notin {"code", "repositories", "issues", "users"}
    THEN [out |-> ToolResult(tool_name, FALSE, None,
                      Some(<<"GitHub search failed: ", "Invalid search type: ",
                             search_type>>), 1, {}),
          tool |-> tool, checked |-> None, requested |-> FALSE]
    ELSE IF ~check_rate_limit(tool, now).ok
    THEN [out |-> ToolResult(tool_name, FALSE, None,
                      Some(<<"GitHub API rate limit exceeded. Please try again later.">>),
                      0, {}),
          tool |-> check_rate_limit(tool, now).tool,
          checked |-> Some(check_rate_limit(tool, now).tool.rate_limit_remaining),
          requested |-> FALSE]
    ELSE [out |-> IF response.status = 200
                  THEN ToolResult(tool_name, TRUE,
                           [kind |-> "github", search_type |-> search_type,
                            total_count |-> Len(response.items),
                            results |-> response.items,
                            rate_limit_remaining |->
                                perform_search(tool, now, response).rate_limit_remaining],
                           None, 1, {"search_query"})
                  ELSE ToolResult(tool_name, FALSE, None,
                           Some(<<"GitHub search failed: ", "GitHub API error ",
                                  ToString(response.status)>>), 1, {}),
          tool |-> perform_search(check_rate_limit(tool, now).tool, now, response),
          checked |-> Some(check_rate_limit(tool, now).tool.rate_limit_remaining),
          requested |-> TRUE]

\* GitHubSearchWithContentTool._perform_github_search: the tool after the
\* request (only the remaining quota is taken from the response)
perform_github_search(tool, response) ==
    [tool EXCEPT
       !.rate_limit_remaining =
           IF response.remaining.isNone THEN 0 ELSE response.remaining.v]

\* GitHubSearchWithContentTool.execute with its quota counter: it goes to
\* _perform_github_search without looking at the counter
GitHubSearchWithContentTool_quota(tool, kwargs, now, response) ==
    [out |-> GitHubSearchWithContentTool_execute(kwargs, Ext,
                 Env(now, 1, Ok(<<>>), 1, TRUE,
                     IF response.status = 200 THEN Ok(response.items)
                     ELSE Raise(<<"GitHub API error: ", ToString(response.status)>>),
                     "ok")).out.value,
     tool |-> perform_github_search(tool, response),
     checked |-> Some(tool.rate_limit_remaining),
     requested |-> TRUE]

GitHubExecute(tool_name, search_type, now, response) ==
    IF tool_name = "github_search_with_content"
    THEN GitHubSearchWithContentTool_quota(tools[tool_name],
             [query |-> <<"x">>, search_type |-> search_type], now, response)
    ELSE GitHubSearchTool_execute(tool_name, tools[tool_name], search_type, now,
                                  response)

InitGithub ==
    /\ \E github_token \in BOOLEAN :
          tools = [n \in GitHubToolNames |-> GitHubTool_init(github_token, 0)]
    /\ execution_history = <<>>
    /\ index_chunks = 0
    /\ document_manager = None
    /\ memory = NewMemory(0)
    /\ conversation = None
    /\ llm_client = TRUE
    /\ clock = 0
    /\ pc = "idle"
    /\ turn = NoTurn
    /\ returned = None
    /\ last_call = None
    /\ calls = [turns |-> 0, direct |-> 0, registry |-> 0,
                execute_tool |-> 0, invoked |-> 0]

\* one execute call of a GitHub tool at the current time
ExecuteGitHubTool(tool_name, search_type, response) ==
    /\ calls.direct < MaxGithubCalls
    /\ LET r == GitHubExecute(tool_name, search_type, clock, response)
       IN /\ tools' = [tools EXCEPT ![tool_name] = r.tool]
          /\ last_call' = Some([tool_name |-> tool_name, checked |-> r.checked,
                                requested |-> r.requested, result |-> r.out])
    /\ calls' = [calls EXCEPT !.direct = @ + 1]
    /\ UNCHANGED <<execution_history, index_chunks, document_manager, memory,
                   conversation, llm_client, clock, pc, turn, returned>>

\* half an hour passes
Tick ==
    /\ clock < MaxGithubCalls * 3600
    /\ clock' = clock + 1800
    /\ UNCHANGED <<tools, execution_history, index_chunks, document_manager,
                   memory, conversation, llm_client, pc, turn, returned,
                   last_call, calls>>

NextGithub ==
    \/ \E tool_name \in GitHubToolNames, search_type \in {"code", "bogus"},
          response \in GitHubResponses :
           ExecuteGitHubTool(tool_name, search_type, response)
    \/ Tick

SpecGithub == InitGithub /\ [][NextGithub]_vars

\* ------------------------------------------------------------------ text analysis alone
\* TextAnalysisTool.execute on every text of up to MaxTextLen characters: a
\* letter, a space, a full stop, a line break
AnalysisChars == {"a", " ", ".", "\n"}
AnalysisTexts == UNION {[1..n -> AnalysisChars] : n \in 0..MaxTextLen}

Analyze(text, analysis_type) ==
    /\ last_call' = Some([text |-> text, analysis_type |-> analysis_type])
    /\ returned' = Some(TextAnalysisTool_execute(
                            [text |-> text, analysis_type |-> analysis_type],
                            Ext, Env(clock, 1, Ok(<<>>), 1, TRUE, Ok(<<>>), "ok")).out)
    /\ UNCHANGED <<tools, execution_history, index_chunks, document_manager,
                   memory, conversation, llm_client, clock, pc, turn, calls>>

NextAnalysis ==
    \E text \in AnalysisTexts, analysis_type \in {"basic", "detailed"} :
        Analyze(text, analysis_type)

SpecAnalysis == InitMem /\ [][NextAnalysis]_vars

\* ------------------------------------------------------------------ turns with external calls that may not answer
\* A turn awaits its external calls (the tools' requests to the index and to
\* GitHub, the LLM requests) without a timeout of its own: none is passed to
\* aiohttp.ClientSession or to the OpenAI client, process_request takes none
\* from its caller, and the configured max_execution_time is read nowhere.
\* Whether a pending call is ever given up is left to the defaults of the
\* libraries: when they give up, the call raises (a Raise outcome of the
\* step); Unanswered is the other case, a call that stays pending, after
\* which nothing resumes the coroutine.
AwaitsExternalCall == pc \in {"tools", "compose_github", "compose", "simple"}

Unanswered ==
    /\ AwaitsExternalCall
    /\ pc = "compose" => turn.i > Len(turn.tool_results)
    /\ pc' = "blocked"
    /\ UNCHANGED <<tools, execution_history, index_chunks, document_manager,
                   memory, conversation, llm_client, clock, turn, returned,
                   last_call, calls>>

NextLive ==
    \/ \E u \in Utterances, b \in BOOLEAN : StartTurn(u, b)
    \/ Decide
    \/ ExecuteRecommended
    \/ Compose
    \/ \E env \in ToolEnvs("add_to_knowledge_base", clock) : ComposeGithub(env)
    \/ \E s \in SearchOutcomes, a1 \in ApiOutcomes, a2 \in ApiOutcomes :
           GenerateWithTools(s, a1, a2)
    \/ \E s \in SearchOutcomes, a1 \in ApiOutcomes, a2 \in ApiOutcomes :
           GenerateSimple(s, a1, a2)
    \/ \E e \in Elapsed : Respond(e)
    \/ Unanswered

\* the coroutine of a started turn moves on to another position of
\* process_request
Resumed ==
    /\ pc \in {"decide", "tools", "compose_github", "compose", "simple", "respond"}
    /\ pc' \in {"tools", "compose_github", "compose", "simple", "respond", "idle"}

\* the event loop runs a coroutine that is ready: a turn whose awaited calls
\* complete does not stay at one position of process_request for ever.  (The
\* steps of NextLive that change pc from a position of a turn to another one
\* are exactly the steps of the turn; the fairness is stated on pc.)
SpecLive == Init /\ [][NextLive]_vars /\ WF_pc(Resumed)

\* ------------------------------------------------------------------ two turns interleaved on one Agent
\* Two process_request coroutines run on the same Agent under one event loop:
\* one of them runs, the other is suspended at an await (or has not run yet,
\* or has returned).  pc, turn and returned are those of the running
\* coroutine; the frame of the other one is kept in turn.suspended.  All the
\* rest (memory, the tools, the index, the LLM conversation) is the Agent's
\* and is shared.  There is no lock around any of it.
Frame(position, locals, result) ==
    [pc |-> position, turn |-> [f \in DOMAIN NoTurn |-> locals[f]],
     returned |-> result]

NotStarted(frame) == frame.pc = "idle" /\ frame.returned = None
Finished(frame) == frame.pc = "idle" /\ frame.returned # None

\* the short-term memory left by earlier turns: n items, the last one
\* stamped 0
EarlierMemory(n) ==
    LET F[i \in 0..n] ==
            IF i = 0 THEN NewMemory(0 - n)
            ELSE add_to_short_term(F[i - 1],
                     [type |-> "user_input", content |-> <<"e", "a", "r", "l", "y">>,
                      conversation_id |-> ConversationId], i - n)
    IN F[n]

EarlierItems == {0, MaxEarlierItems}

\* an utterance without a keyword and one that asks for a repository search
InterleavedUtterances == {<<"h", "i">>, <<"r", "e", "p", "o">>}
InterleavedSearchOutcomes == {Ok(<<>>)}
InterleavedApiOutcomes == {Ok(<<"answer">>), Raise(<<"connection refused">>)}

InitTwoTurns ==
    /\ tools = register_default_tools(TRUE)
    /\ execution_history = <<>>
    /\ index_chunks = 0
    /\ document_manager = Some(NewDocumentManager)
    /\ \E n \in EarlierItems : memory = EarlierMemory(n)
    /\ conversation = None
    /\ llm_client = TRUE
    /\ clock = 1
    /\ pc = "idle"
    /\ turn = DictSet(NoTurn, "suspended", Frame("idle", NoTurn, None))
    /\ returned = None
    /\ last_call = None
    /\ calls = [turns |-> 0, direct |-> 0, registry |-> 0,
                execute_tool |-> 0, invoked |-> 0]

\* a switch that gives the resumed coroutine the short-term memory as it
\* was when that coroutine was suspended
Switch_restoring_memory ==
    /\ pc \in {"idle", "decide", "tools", "compose_github", "compose", "simple"}
    /\ ~NotStarted(Frame(pc, turn, returned))
    /\ ~Finished(turn.suspended)
    /\ pc' = turn.suspended.pc
    /\ returned' = turn.suspended.returned
    /\ turn' = DictSet(turn.suspended.turn, "suspended",
                       DictSet(Frame(pc, turn, returned), "memory", memory))
    /\ memory' = IF "memory" \in DOMAIN turn.suspended
                 THEN turn.suspended.memory ELSE memory
    /\ UNCHANGED <<tools, execution_history, index_chunks, document_manager,
                   conversation, llm_client, clock, last_call, calls>>

\* the event loop leaves the running coroutine at an await of
\* process_request (or after its return) and runs the other one
Switch ==
    /\ pc \in {"idle", "decide", "tools", "compose_github", "compose", "simple"}
    /\ ~NotStarted(Frame(pc, turn, returned))
    /\ ~Finished(turn.suspended)
    /\ pc' = turn.suspended.pc
    /\ returned' = turn.suspended.returned
    /\ turn' = DictSet(turn.suspended.turn, "suspended", Frame(pc, turn, returned))
    /\ UNCHANGED <<tools, execution_history, index_chunks, document_manager,
                   memory, conversation, llm_client, clock, last_call, calls>>

\* process_request entered by a coroutine that has not run yet: the user
\* input goes to short-term memory before the first await
StartInterleaved(user_input, use_tools) ==
    /\ NotStarted(Frame(pc, turn, returned))
    /\ memory' = add_to_short_term(memory,
                     [type |-> "user_input", content |-> user_input,
                      conversation_id |-> ConversationId], clock)
    /\ turn' = DictSet([NoTurn EXCEPT !.user_input = user_input,
                                      !.use_tools = use_tools],
                       "suspended", turn.suspended)
    /\ pc' = "decide"
    /\ returned' = None
    /\ clock' = clock + 1
    /\ calls' = [calls EXCEPT !.turns = @ + 1]
    /\ UNCHANGED <<tools, execution_history, index_chunks, document_manager,
                   conversation, llm_client, last_call>>

NextTwoTurns ==
    \/ \E u \in InterleavedUtterances, b \in BOOLEAN : StartInterleaved(u, b)
    \/ Switch
    \/ Decide
    \/ ExecuteRecommended
    \/ Compose
    \/ \E env \in ToolEnvs("add_to_knowledge_base", clock) : ComposeGithub(env)
    \/ \E s \in InterleavedSearchOutcomes, a1 \in InterleavedApiOutcomes, a2 \in InterleavedApiOutcomes :
           GenerateWithTools(s, a1, a2)
    \/ \E s \in InterleavedSearchOutcomes, a1 \in InterleavedApiOutcomes, a2 \in InterleavedApiOutcomes :
           GenerateSimple(s, a1, a2)
    \/ \E e \in Elapsed : Respond(e)

SpecTwoTurns == InitTwoTurns /\ [][NextTwoTurns]_vars

\* ------------------------------------------------------------------ recent slices
\* Python's s[start:]: a negative start counts from the end, and any start
\* is clipped to the list; -0 is 0
SliceFrom(s, start) ==
    LET n == Len(s)
        lo == IF start < 0
              THEN (IF n + start > 0 THEN n + start ELSE 0)
              ELSE Min(start, n)
    IN SubSeq(s, lo + 1, n)

\* ToolManager.get_execution_history
get_execution_history(history, limit) ==
    IF history # <<>> THEN SliceFrom(history, 0 - limit) ELSE <<>>

\* AgentMemory.get_recent_activities
get_recent_activities(mem, limit) ==
    IF mem.short_term_memory # <<>>
    THEN SliceFrom(mem.short_term_memory, 0 - limit) ELSE <<>>

Limits == 0..MaxLimit

LoggedCalls == {c \in DirectCalls : c.tool_name = "text_analysis"}

\* one more item in short-term memory
NoteActivity ==
    /\ Len(memory.short_term_memory) < MaxLogged
    /\ memory' = add_to_short_term(memory,
                     [type |-> "user_input", content |-> <<"h", "i">>,
                      conversation_id |-> ConversationId], clock)
    /\ clock' = clock + 1
    /\ last_call' = None
    /\ returned' = None
    /\ UNCHANGED <<tools, execution_history, index_chunks, document_manager,
                   conversation, llm_client, pc, turn, calls>>

\* one more execution in the history
LogExecution(c, env) ==
    /\ Len(execution_history) < MaxLogged
    /\ execution_history' =
           execute_tool(tools, execution_history, Ext, c.tool_name, c.kwargs, env).history
    /\ clock' = clock + 1
    /\ last_call' = None
    /\ returned' = None
    /\ UNCHANGED <<tools, index_chunks, document_manager, memory, conversation,
                   llm_client, pc, turn, calls>>

ReadExecutionHistory(limit) ==
    /\ last_call' = Some([op |-> "get_execution_history", limit |-> limit])
    /\ returned' = Some(get_execution_history(execution_history, limit))
    /\ UNCHANGED <<tools, execution_history, index_chunks, document_manager,
                   memory, conversation, llm_client, clock, pc, turn, calls>>

ReadRecentActivities(limit) ==
    /\ last_call' = Some([op |-> "get_recent_activities", limit |-> limit])
    /\ returned' = Some(get_recent_activities(memory, limit))
    /\ UNCHANGED <<tools, execution_history, index_chunks, document_manager,
                   memory, conversation, llm_client, clock, pc, turn, calls>>

NextSlices ==
    \/ NoteActivity
    \/ \E c \in LoggedCalls : \E env \in ToolEnvs(c.tool_name, clock) : LogExecution(c, env)
    \/ \E limit \in Limits : ReadExecutionHistory(limit)
    \/ \E limit \in Limits : ReadRecentActivities(limit)

SpecSlices == InitMem /\ [][NextSlices]_vars

\* ------------------------------------------------------------------ Django knowledge base service
\* KnowledgeBaseService.add_document on the Django tables.  The tables are
\* db.documents (the ids of the Document rows) and db.chunks (the
\* DocumentChunk rows as <<document id, chunk_index>>); the vector store is
\* the number of chunks it holds.  The service is [wired |-> b]: __init__
\* sets no attribute, so on a service as constructed (wired = FALSE) reading
\* self.document_processor raises AttributeError; wired = TRUE is a service
\* whose collaborators were attached by its caller.
\* No transaction surrounds the method.
EmptyTables == [documents |-> {}, chunks |-> {}]

\* Document.delete(): the chunks go with it (on_delete = CASCADE)
Document_delete(db, id) ==
    [documents |-> db.documents \ {id},
     chunks |-> {c \in db.chunks : c[1] # id}]

\* what the collaborators answer to one add_document call: whether the
\* Document row can be created, what process_document gives (a number of
\* chunks or an exception), what vector_store.add_documents gives
ServiceEnvs ==
    [create_ok : BOOLEAN,
     processed : {Raise(<<"cannot read file">>)} \cup {Ok(n) : n \in 0..MaxChunks},
     added : {Ok(TRUE), Ok(FALSE), Raise(<<"index unavailable">>)}]

Failure(error) == [success |-> FALSE, error |-> error]

\* gives the returned dict, the tables and the vector store after the call
KnowledgeBaseService_add_document(service, db, store, id, title, content, env) ==
    IF ~env.create_ok
    THEN [result |-> Failure(<<"database error">>), db |-> db, store |-> store]
    ELSE LET created == [db EXCEPT !.documents = @ \cup {id}]
         IN IF ~service.wired
            THEN [result |-> Failure(<<"'KnowledgeBaseService' object has no attribute 'document_processor'">>),
                  db |-> created, store |-> store]
            ELSE IF env.processed.raised
            THEN [result |-> Failure(env.processed.exc), db |-> created, store |-> store]
            ELSE IF env.processed.value > 0
            THEN LET chunked == [created EXCEPT !.chunks =
                                    @ \cup {<<id, i>> : i \in 0..(env.processed.value - 1)}]
                 IN IF env.added.raised
                    THEN [result |-> Failure(env.added.exc), db |-> chunked, store |-> store]
                    ELSE IF env.added.value
                    THEN [result |-> [success |-> TRUE, document_id |-> id,
                                      chunks_added |-> env.processed.value,
                                      title |-> title],
                          db |-> chunked, store |-> store + env.processed.value]
                    ELSE [result |-> Failure(<<"Failed to add to vector store">>),
                          db |-> Document_delete(chunked, id), store |-> store]
            ELSE [result |-> Failure(<<"No content could be extracted">>),
                  db |-> Document_delete(created, id), store |-> store]

\* the tables are kept in document_manager, the vector store in
\* index_chunks, the service object in tools; the clock gives the new id
InitService ==
    /\ \E wired \in BOOLEAN : tools = [wired |-> wired]
    /\ execution_history = <<>>
    /\ index_chunks = 0
    /\ document_manager = EmptyTables
    /\ memory = NewMemory(0)
    /\ conversation = None
    /\ llm_client = TRUE
    /\ clock = 1
    /\ pc = "idle"
    /\ turn = NoTurn
    /\ returned = None
    /\ last_call = None
    /\ calls = [turns |-> 0, direct |-> 0, registry |-> 0,
                execute_tool |-> 0, invoked |-> 0]

AddDocument(content, env) ==
    /\ calls.direct < MaxAdds
    /\ LET r == KnowledgeBaseService_add_document(tools, document_manager,
                     index_chunks, clock, <<"notes">>, content, env)
       IN /\ document_manager' = r.db
          /\ index_chunks' = r.store
          /\ returned' = Some(r.result)
          /\ last_call' = Some([id |-> clock, before |-> document_manager,
                                 env |-> env, content |-> content])
    /\ clock' = clock + 1
    /\ calls' = [calls EXCEPT !.direct = @ + 1]
    /\ UNCHANGED <<tools, execution_history, memory, conversation, llm_client,
                   pc, turn>>

NextService ==
    \E content \in {<<>>, DocText}, env \in ServiceEnvs : AddDocument(content, env)

SpecService == InitService /\ [][NextService]_vars

\* ------------------------------------------------------------------ Django agent service
\* AgentService._process_with_llm of django_app/knowledge_base/services.py,
\* on a service whose __init__ set llm_available (so rag_chain exists and the
\* elif branches of the method are not taken), called with a conversation id.
MaxMessages == 2

Placeholder == <<"No response generated">>

\* the phrases _process_with_llm looks for in the lowered RAG response
UnhelpfulPhrases ==
    {"without any relevant documents", "do not have enough information",
     "no relevant documents found", "i am unable to", "cannot provide"}

\* str.lower() on a response whose fragments are phrases
LowerPhrase(f) == IF f = "I am unable to" THEN "i am unable to" ELSE LowerChar(f)

ChatApiOutcomes == ApiOutcomes \cup {Ok(<<"I am unable to", " say">>)}

\* AgentService._direct_llm_response: never raises
direct_llm_response(message, llm_response) ==
    IF ~llm_response.raised
    THEN [response |-> llm_response.value.content,
          tools_used |-> <<"direct_llm">>, success |-> TRUE]
    ELSE [response |-> <<"I encountered an error: ">> \o llm_response.exc,
          tools_used |-> <<>>, success |-> FALSE]

\* result.get('response', 'No response generated') and the like
GetOr(d, key, default) == IF key \in DOMAIN d THEN d[key] ELSE default

\* the dict _process_with_llm returns for the result of its try block
ServiceReply(result, elapsed) ==
    [success |-> TRUE,
     response |-> GetOr(result, "response", Placeholder),
     tools_used |-> GetOr(result, "tools_used", <<>>),
     execution_time |-> elapsed]

\* _process_with_llm given what rag_chain.process_query(message,
\* conversation_id, "chat", retrieval_k=3) did (rag) and what the LLM answers
\* to a direct request (llm_response).  direct_asked tells whether
\* _direct_llm_response was called.
process_with_llm(message, rag, llm_response, elapsed) ==
    IF rag.raised
    THEN [reply |-> ServiceReply(direct_llm_response(message, llm_response), elapsed),
          direct_asked |-> TRUE]
    ELSE LET result == rag.value
             response_text == [i \in DOMAIN GetOr(result, "response", <<>>) |->
                                  LowerPhrase(GetOr(result, "response", <<>>)[i])]
             unhelpful == \E phrase \in UnhelpfulPhrases :
                              IsInfix(<<phrase>>, response_text)
         IN IF unhelpful
            THEN [reply |-> ServiceReply(direct_llm_response(message, llm_response),
                                         elapsed),
                  direct_asked |-> TRUE]
            ELSE [reply |-> ServiceReply(result, elapsed), direct_asked |-> FALSE]

\* rag_chain.process_query with retrieval_k=3; the "chat" template differs
\* from "rag_qa" in the prompt text only
chat_query(message, conv, client, search, api) ==
    rag_answer(message, conv, retrieve_documents(message, 3, 0, search),
               generate_response(client, api))

InitAgentService ==
    /\ tools = register_default_tools(FALSE)
    /\ execution_history = <<>>
    /\ index_chunks = 0
    /\ document_manager = None
    /\ memory = NewMemory(0)
    /\ conversation = None
    /\ llm_client \in BOOLEAN
    /\ clock = 1
    /\ pc = "idle"
    /\ turn = NoTurn
    /\ returned = None
    /\ last_call = None
    /\ calls = [turns |-> 0, direct |-> 0, registry |-> 0,
                execute_tool |-> 0, invoked |-> 0]

\* last_call keeps what the RAG path did, for the observers of the call
ProcessMessage(message, search, api1, api2) ==
    /\ calls.direct < MaxMessages
    /\ LET rag == chat_query(message, conversation, llm_client, search, api1)
           r == process_with_llm(message, rag, generate_response(llm_client, api2), 1)
       IN /\ returned' = Some(r.reply)
          /\ conversation' = rag.conversation
          /\ last_call' = Some([message |-> message,
                                 rag |-> RagStatus([raised |-> rag.raised,
                                             rag_success |-> ~rag.raised
                                                             /\ rag.value.success]),
                                 rag_asked |-> rag.llm_calls # <<>>,
                                 direct_asked |-> r.direct_asked])
    /\ clock' = clock + 1
    /\ calls' = [calls EXCEPT !.direct = @ + 1]
    /\ UNCHANGED <<tools, execution_history, index_chunks, document_manager,
                   memory, llm_client, pc, turn>>

NextAgentService ==
    \E message \in Utterances, search \in SearchOutcomes,
       api1 \in ChatApiOutcomes, api2 \in ApiOutcomes :
        ProcessMessage(message, search, api1, api2)

SpecAgentService == InitAgentService /\ [][NextAgentService]_vars

\* ------------------------------------------------------------------ a turn after earlier turns
\* The memory that k earlier turns have left: for each of them a user_input
\* item and an agent_response item, written by add_to_short_term; the memory
\* was created 2k ticks ago and the last item is stamped 0.
AfterTurns(k) ==
    LET F[i \in 0..(2 * k)] ==
            IF i = 0 THEN NewMemory(0 - 2 * k)
            ELSE add_to_short_term(F[i - 1],
                     IF i % 2 = 1
                     THEN [type |-> "user_input", content |-> <<"h", "i">>,
                           conversation_id |-> ConversationId]
                     ELSE [type |-> "agent_response", content |-> <<"answer">>,
                           conversation_id |-> ConversationId, tools_used |-> <<>>],
                     i - 2 * k)
    IN F[2 * k]

EarlierTurns == {0, 1, MaxEarlierTurns - 2, MaxEarlierTurns - 1, MaxEarlierTurns}

\* the number of turns before the current one
TurnsBefore == (0 - memory.created_at) \div 2

InitLaterTurn ==
    /\ \E github_token \in BOOLEAN : tools = register_default_tools(github_token)
    /\ execution_history = <<>>
    /\ index_chunks = 0
    /\ document_manager = Some(NewDocumentManager)
    /\ \E k \in EarlierTurns : memory = AfterTurns(k)
    /\ conversation = None
    /\ llm_client \in BOOLEAN
    /\ clock = 1
    /\ pc = "idle"
    /\ turn = NoTurn
    /\ returned = None
    /\ last_call = None
    /\ calls = [turns |-> 0, direct |-> 0, registry |-> 0,
                execute_tool |-> 0, invoked |-> 0]

NextLaterTurn ==
    \/ \E u \in Utterances, b \in BOOLEAN : StartTurn(u, b)
    \/ Decide
    \/ ExecuteRecommended
    \/ Compose
    \/ \E env \in ToolEnvs("add_to_knowledge_base", clock) : ComposeGithub(env)
    \/ \E s \in SearchOutcomes, a1 \in ApiOutcomes, a2 \in ApiOutcomes :
           GenerateWithTools(s, a1, a2)
    \/ \E s \in SearchOutcomes, a1 \in ApiOutcomes, a2 \in ApiOutcomes :
           GenerateSimple(s, a1, a2)
    \/ \E e \in Elapsed : Respond(e)

SpecLaterTurn == InitLaterTurn /\ [][NextLaterTurn]_vars

\* ------------------------------------------------------------------ clearing the conversation
\* The conversation that k earlier successful turns "hi" / "answer" have
\* left in the ConversationManager under the agent's conversation_id
EarlierConversation(k) ==
    LET F[i \in 0..(2 * k)] ==
            IF i = 0 THEN <<>>
            ELSE IF i % 2 = 1 THEN add_message(F[i - 1], "user", <<"h", "i">>).value
            ELSE add_message(F[i - 1], "assistant", <<"answer">>).value
    IN F[2 * k]

ClearedAfter == {1, MaxClearedAfter}

InitCleared ==
    /\ tools = register_default_tools(FALSE)
    /\ execution_history = <<>>
    /\ index_chunks = 0
    /\ document_manager = Some(NewDocumentManager)
    /\ \E k \in ClearedAfter :
          /\ memory = AfterTurns(k)
          /\ conversation = Some(EarlierConversation(k))
    /\ llm_client \in BOOLEAN
    /\ clock = 1
    /\ pc = "idle"
    /\ turn = NoTurn
    /\ returned = None
    /\ last_call = None
    /\ calls = [turns |-> 0, direct |-> 0, registry |-> 0,
                execute_tool |-> 0, invoked |-> 0]

\* the memory is the one AgentMemory() made when the conversation was
\* cleared (the memory of the earlier turns was created before tick 1)
Cleared == memory.created_at > 0

\* ConversationInterface.clear_conversation: the interface forgets its own
\* list of exchanges and calls Agent.clear_memory, which replaces the
\* AgentMemory; conversation_id and the ConversationManager are not touched
ClearConversation ==
    /\ pc = "idle" /\ ~Cleared
    /\ memory' = NewMemory(clock)
    /\ clock' = clock + 1
    /\ UNCHANGED <<tools, execution_history, index_chunks, document_manager,
                   conversation, llm_client, pc, turn, returned, last_call, calls>>

NextCleared ==
    \/ ClearConversation
    \/ \E u \in Utterances, b \in BOOLEAN : StartTurn(u, b)
    \/ Decide
    \/ ExecuteRecommended
    \/ Compose
    \/ \E s \in SearchOutcomes, a1 \in ApiOutcomes, a2 \in ApiOutcomes :
           GenerateWithTools(s, a1, a2)
    \/ \E s \in SearchOutcomes, a1 \in ApiOutcomes, a2 \in ApiOutcomes :
           GenerateSimple(s, a1, a2)
    \/ \E e \in Elapsed : Respond(e)

SpecCleared == InitCleared /\ [][NextCleared]_vars

\* ------------------------------------------------------------------ policy alone
\* the words the utterances are made of: no keyword; an information-seeking
\* one; analysis ones; code/repository and language ones in both cases; a
\* language that only _detect_programming_language knows
PolicyWords ==
    {<<"h", "i">>,
     <<"w", "h", "a", "t">>,
     <<"A", "n", "a", "l", "y", "z", "e">>,
     <<"c", "o", "u", "n", "t">>,
     <<"G", "i", "t", "H", "u", "b">>,
     <<"p", "y", "t", "h", "o", "n">>,
     <<"j", "a", "v", "a", "s", "c", "r", "i", "p", "t">>,
     <<"r", "u", "s", "t">>,
     <<"c", "l", "a", "s", "s">>}

\* " ".join(ws)
JoinWords(ws) ==
    LET F[i \in 0..Len(ws)] ==
            IF i = 0 THEN <<>>
            ELSE IF i = 1 THEN ws[1]
            ELSE F[i - 1] \o <<" ">> \o ws[i]
    IN F[Len(ws)]

PolicyUtterances ==
    {JoinWords(ws) : ws \in UNION {[1..n -> PolicyWords] : n \in 0..MaxWords}}

\* process_request with use_tools=True up to the tool decision
NextPolicy ==
    \/ \E u \in PolicyUtterances : StartTurn(u, TRUE)
    \/ Decide

SpecPolicy == InitMem /\ [][NextPolicy]_vars

\* ------------------------------------------------------------------ claims
\* C1: execute_tool never lets an exception out, whatever the name and the
\* keyword arguments; when the tool's body (or the binding of its arguments)
\* raises, the caller gets a ToolResult with success false whose error
\* contains the text of the exception.
C1_ExecuteToolTotal ==
    last_call # None =>
        /\ ~last_call.v.raised
        /\ last_call.v.body_exc # None =>
               /\ ~last_call.v.result.success
               /\ last_call.v.result.error # None
               /\ IsInfix(last_call.v.body_exc.v, last_call.v.result.error.v)

C1_Witness ==
    /\ last_call # None
    /\ last_call.v.tool_name = "custom_tool"
    /\ last_call.v.body_exc # None
    /\ ~last_call.v.raised

C4_AsStated ==
    (returned # None /\ turn.rag = "failed") =>
        Cardinality({i \in DOMAIN turn.llm_calls :
                        /\ turn.llm_calls[i].kind # "rag"
                        /\ ~turn.llm_calls[i].retrieval_context}) = 1

\* C5: when the LLM call that produces the final answer of a turn raises, the
\* response returned embeds the message of the exception, and that response
\* is the content of the agent_response item the turn appends to short-term
\* memory.
C5_DegradedResponseRemembered ==
    (/\ returned # None
     /\ turn.llm_calls # <<>>
     /\ turn.llm_calls[Len(turn.llm_calls)].raised)
    => /\ ~returned.v.raised
       /\ IsInfix(turn.llm_calls[Len(turn.llm_calls)].error.v,
                  returned.v.value.response)
       /\ memory.short_term_memory # <<>>
       /\ LET item == memory.short_term_memory[Len(memory.short_term_memory)]
          IN /\ item.type = "agent_response"
             /\ item.content = returned.v.value.response

C5_Witness ==
    /\ returned # None
    /\ turn.path = "tools"
    /\ turn.llm_calls # <<>>
    /\ turn.llm_calls[Len(turn.llm_calls)].kind = "combined"
    /\ turn.llm_calls[Len(turn.llm_calls)].raised
    /\ memory.short_term_memory[Len(memory.short_term_memory)].content
           = returned.v.value.response

\* C6: short-term memory never holds more than 50 items; after N appends it
\* holds exactly the min(N, 50) most recent ones, in insertion order (the
\* item appended at clock value t carries timestamp t, and clock - 1 appends
\* have been made).
C6_ShortTermWindow ==
    LET stm == memory.short_term_memory
        n == clock - 1
    IN /\ Len(stm) <= ShortTermLimit
       /\ Len(stm) = Min(n, ShortTermLimit)
       /\ \A i \in DOMAIN stm : stm[i].timestamp = n - Len(stm) + i

C6_Witness ==
    /\ clock - 1 > ShortTermLimit + 1
    /\ Len(memory.short_term_memory) = ShortTermLimit
    /\ memory.short_term_memory[1].timestamp = clock - ShortTermLimit

\* C7 as stated: every call of execute_tool, a call for an unregistered or a
\* disabled tool included, appends one history entry, so that the history is
\* as long as the number of calls.
C7_AsStated ==
    Len(execution_history) = calls.execute_tool

\* C7, amended: a call of execute_tool that reaches the tool's execute (the
\* tool is registered and enabled) appends exactly one history entry, whether
\* the body returns or raises; a call for an unregistered or a disabled tool
\* appends none; the history is as long as the number of calls that reached
\* a tool.
C7_HistoryOfInvocations ==
    /\ Len(execution_history) = calls.invoked
    /\ last_call # None =>
           /\ last_call.v.invoked = (last_call.v.registered /\ last_call.v.enabled)
           /\ last_call.v.appended = IF last_call.v.invoked THEN 1 ELSE 0

C7_Witness ==
    /\ last_call # None
    /\ ~last_call.v.registered
    /\ last_call.v.appended = 0
    /\ calls.execute_tool > Len(execution_history)

\* C8 as stated: every ToolResult has no error when success is true, and a
\* non-empty error and no result payload when success is false.
C8_AsStated ==
    last_call # None =>
        IF last_call.v.result.success
        THEN last_call.v.result.error = None
        ELSE /\ last_call.v.result.error # None
             /\ last_call.v.result.error.v # <<>>
             /\ last_call.v.result.result = None

\* C9: a call of execute_tool for an unregistered name returns success false
\* with an error saying "not found" and execution_time 0; for a disabled tool
\* it returns success false with an error saying "disabled"; in both cases no
\* tool body is invoked, nothing is raised and the registry is left as it was.
C9_UnknownOrDisabled ==
    [][(/\ calls'.execute_tool = calls.execute_tool + 1
        /\ ~(last_call'.v.registered /\ last_call'.v.enabled))
       => /\ tools' = tools
          /\ ~last_call'.v.raised
          /\ ~last_call'.v.invoked
          /\ ~last_call'.v.result.success
          /\ last_call'.v.result.execution_time = 0
          /\ last_call'.v.result.error # None
          /\ IF ~last_call'.v.registered
             THEN IsInfix(<<"not found">>, last_call'.v.result.error.v)
             ELSE IsInfix(<<"disabled">>, last_call'.v.result.error.v)]_vars

C9_Witness ==
    /\ last_call # None
    /\ last_call.v.registered
    /\ ~last_call.v.enabled
    /\ ~last_call.v.invoked
    /\ IsInfix(<<"disabled">>, last_call.v.result.error.v)

\* C10 as stated: AddToKnowledgeBaseTool.execute with content "" gives
\* success false with an error saying that no content could be extracted, and
\* leaves the index and the document counters as they were.
C10_AsStated ==
    (/\ last_call # None
     /\ last_call.v.tool_name = "add_to_knowledge_base"
     /\ last_call.v.invoked
     /\ "content" \in DOMAIN last_call.v.parameters
     /\ last_call.v.parameters.content = <<>>)
    => /\ ~last_call.v.result.success
       /\ last_call.v.result.error # None
       /\ IsInfix(<<"No content could be extracted">>, last_call.v.result.error.v)
       /\ ~last_call.v.kb_changed

\* the knowledge-base inserts the history records, and those that succeeded
IsKbInsert(entry) == entry.tool_name = "add_to_knowledge_base"
KbSucceeded(entry) == IsKbInsert(entry) /\ entry.result.success
SumChunksAdded(entries) ==
    LET F[i \in 0..Len(entries)] ==
            IF i = 0 THEN 0 ELSE F[i - 1] + entries[i].result.result.chunks_added
    IN F[Len(entries)]

\* C11: with a document manager attached, total_documents is the number of
\* knowledge-base inserts that returned success, total_chunks the sum of
\* their chunks_added, processed_documents has one record for each of them,
\* and an insert that fails (processing error, add_documents answering False)
\* changes neither the statistics nor the index.
C11_StatisticsCountSuccesses ==
    document_manager # None =>
        LET ok == SelectSeq(execution_history, KbSucceeded)
            stats == document_manager.v.document_stats
        IN /\ stats.total_documents = Len(ok)
           /\ stats.total_chunks = SumChunksAdded(ok)
           /\ Len(document_manager.v.processed_documents) = Len(ok)
           /\ (/\ last_call # None
               /\ last_call.v.tool_name = "add_to_knowledge_base"
               /\ ~last_call.v.result.success) => ~last_call.v.kb_changed

C11_Witness ==
    /\ document_manager # None
    /\ document_manager.v.document_stats.total_documents = 1
    /\ document_manager.v.document_stats.total_chunks = MaxChunks
    /\ \E i \in DOMAIN execution_history :
           /\ IsKbInsert(execution_history[i])
           /\ ~execution_history[i].result.success
           /\ execution_history[i].result.result # None

\* the decision of the turn in progress, once taken with use_tools=True
Decided == turn.use_tools /\ turn.path # "none"
RecommendedNames ==
    [i \in DOMAIN turn.recommended_tools |-> turn.recommended_tools[i].tool_name]
Recommends(tool_name) == \E i \in DOMAIN RecommendedNames : RecommendedNames[i] = tool_name
HasCodeKeyword ==
    \/ AnyKeyword(keywords_for_github, Lower(turn.user_input))
    \/ AnyKeyword(keywords_for_code_search, Lower(turn.user_input))
HasSearchKeyword == AnyKeyword(keywords_for_search, Lower(turn.user_input))
HasAnalysisKeyword == AnyKeyword(keywords_for_analysis, Lower(turn.user_input))

C13_AnalysisRule ==
    Decided =>
        /\ Recommends("text_analysis") <=> HasAnalysisKeyword
        /\ \A i \in DOMAIN turn.recommended_tools :
               RecommendedNames[i] = "text_analysis" =>
                   /\ i = Len(turn.recommended_tools)
                   /\ turn.recommended_tools[i].parameters.text = turn.user_input
                   /\ turn.recommended_tools[i].parameters.analysis_type = "basic"

C13_Witness ==
    /\ Decided
    /\ RecommendedNames = <<"github_search_with_content", "text_analysis">>

\* C14 as stated: an utterance that contains "analyze" and no code/repository
\* or programming-language keyword gets exactly [text_analysis].
C14_AsStated ==
    (/\ Decided
     /\ IsInfix(<<"a", "n", "a", "l", "y", "z", "e">>, Lower(turn.user_input))
     /\ ~HasCodeKeyword)
    => RecommendedNames = <<"text_analysis">>

\* C14, amended: an utterance that contains "analyze" and no code/repository
\* or programming-language keyword never gets the repository search; it gets
\* [text_analysis] when it contains no information-seeking keyword either,
\* and [document_search, text_analysis] when it contains one.
C14_AnalyzeWithoutCode ==
    (/\ Decided
     /\ IsInfix(<<"a", "n", "a", "l", "y", "z", "e">>, Lower(turn.user_input))
     /\ ~HasCodeKeyword)
    => RecommendedNames = IF HasSearchKeyword
                          THEN <<"document_search", "text_analysis">>
                          ELSE <<"text_analysis">>

C14_Witness ==
    /\ Decided
    /\ IsInfix(<<"a", "n", "a", "l", "y", "z", "e">>, Lower(turn.user_input))
    /\ ~HasCodeKeyword
    /\ HasSearchKeyword
    /\ RecommendedNames = <<"document_search", "text_analysis">>

\* the language families an utterance matches, by position in the scan order
MatchingFamilies ==
    {i \in DOMAIN language_keywords :
        AnyKeyword(language_keywords[i].keywords, Lower(turn.user_input))}

\* C15: an utterance that contains "github" and "python" gets the repository
\* search with language "python", whatever other language keywords it
\* contains; in general the language passed is that of the first matching
\* family in the order python, javascript, java, typescript, c++, go, rust,
\* php, ruby, swift.
C15_FirstFamilyWins ==
    (Decided /\ Recommends("github_search_with_content")) =>
        LET language == turn.recommended_tools[1].parameters.language IN
        /\ RecommendedNames[1] = "github_search_with_content"
        /\ [i \in DOMAIN language_keywords |-> language_keywords[i].language]
               = <<"python", "javascript", "java", "typescript", "c++", "go",
                   "rust", "php", "ruby", "swift">>
        /\ (/\ IsInfix(<<"g", "i", "t", "h", "u", "b">>, Lower(turn.user_input))
            /\ IsInfix(<<"p", "y", "t", "h", "o", "n">>, Lower(turn.user_input)))
           => language = Some("python")
        /\ IF MatchingFamilies = {} THEN language = None
           ELSE \E i \in MatchingFamilies :
                    /\ \A j \in MatchingFamilies : i <= j
                    /\ language = Some(language_keywords[i].language)

C15_Witness ==
    /\ Decided
    /\ IsInfix(<<"g", "i", "t", "h", "u", "b">>, Lower(turn.user_input))
    /\ IsInfix(<<"p", "y", "t", "h", "o", "n">>, Lower(turn.user_input))
    /\ IsInfix(<<"r", "u", "s", "t">>, Lower(turn.user_input))
    /\ turn.recommended_tools[1].parameters.language = Some("python")

\* C16: in every turn the user_input entry for the raw utterance is the first
\* thing written: when the tool decision is about to run nothing else of the
\* turn has happened (no recommendation, no tool result, no retrieval, no LLM
\* call) and the entry is already the newest item of short-term memory; it
\* stays the newest item while the turn runs, and when the turn has returned,
\* successfully or not, it is still there, directly before the
\* agent_response or error entry of that turn
IsUserInput(item, user_input) ==
    /\ item.type = "user_input"
    /\ item.content = user_input
    /\ item.conversation_id = ConversationId

C16_UserInputFirstAndKept ==
    LET stm == memory.short_term_memory
    IN /\ pc # "idle"
          => /\ stm # <<>>
             /\ IsUserInput(stm[Len(stm)], turn.user_input)
       /\ pc = "decide"
          => /\ turn.path = "none"
             /\ turn.recommended_tools = <<>>
             /\ turn.tool_results = <<>>
             /\ turn.rag = "none"
             /\ turn.llm_calls = <<>>
             /\ turn.generated = None
       /\ returned # None
          => /\ Len(stm) >= 2
             /\ IsUserInput(stm[Len(stm) - 1], turn.user_input)
             /\ stm[Len(stm)].type
                    = (IF returned.v.value.success THEN "agent_response"
                       ELSE "error")

C16_Witness ==
    /\ returned # None
    /\ ~returned.v.value.success
    /\ turn.tool_results = <<>>
    /\ IsUserInput(memory.short_term_memory[Len(memory.short_term_memory) - 1],
                   turn.user_input)

\* C17: every turn that reaches response generation has made exactly one
\* retrieval call of the RAG chain, with the raw utterance as its query, on
\* the tool path as on the no-tool path, whatever the policy recommended and
\* whether or not a document_search tool call of the same turn searched the
\* index before; that call searches the index unless the utterance is blank,
\* which the retriever answers with no documents by itself
ReachedGeneration == turn.rag # "none"

C18_FilterByScore ==
    (returned # None /\ last_call # None)
    => LET c == last_call.v
           base == similarity_search(c.query, c.k, c.search)
           out == returned.v
       IN IF base.raised THEN out.raised
          ELSE /\ ~out.raised
               /\ \A i \in DOMAIN out.value :
                      /\ out.value[i].score >= c.min_score
                      /\ out.value[i].rank + 1 \in DOMAIN base.value
                      /\ out.value[i] = base.value[out.value[i].rank + 1]
               /\ \A i, j \in DOMAIN out.value :
                      i < j => out.value[i].rank < out.value[j].rank
               /\ \A n \in DOMAIN base.value :
                      base.value[n].score >= c.min_score
                      => \E i \in DOMAIN out.value : out.value[i] = base.value[n]

\* a result below the threshold is dropped in front of one that stays, which
\* keeps its rank 1 at position 1; the other survivor sits exactly on the
\* threshold
C18_Witness ==
    /\ returned # None /\ last_call # None
    /\ ~returned.v.raised
    /\ last_call.v.min_score = 50
    /\ ~last_call.v.search.raised
    /\ Len(last_call.v.search.value) = 3
    /\ last_call.v.k = 3
    /\ last_call.v.search.value[1].score = 0
    /\ Len(returned.v.value) = 2
    /\ returned.v.value[1].rank = 1
    /\ returned.v.value[2].score = 50

\* C19: for every text, no chunk that chunk_text returns has empty or
\* whitespace-only content, and the chunk_index of each returned chunk is its
\* 0-based position in the returned sequence (0..n-1 without gaps)
C19_AsStated ==
    (returned # None /\ last_call # None)
    => \A i \in DOMAIN returned.v :
          /\ ~Blank(returned.v[i].content)
          /\ returned.v[i].chunk_index = i - 1

\* C20: a chunk overlap that is not smaller than the chunk size is rejected
\* at construction: no VectorStoreConfig exists with chunk_overlap >=
\* chunk_size, and every chunker that exists, constructed directly or by a
\* DocumentProcessor, has chunk_overlap < chunk_size
C20_AsStated ==
    /\ (last_call # None /\ ~last_call.v.raised)
       => last_call.v.value.chunk_overlap < last_call.v.value.chunk_size
    /\ (returned # None /\ ~returned.v.raised)
       => returned.v.value.chunk_overlap < returned.v.value.chunk_size

\* C21: chunk_text applied to an empty or whitespace-only text returns the
\* empty sequence, whatever the strategy and whatever the splitter would
\* make of that text
C21_BlankTextNoChunks ==
    (returned # None /\ last_call # None /\ Blank(last_call.v.text))
    => returned.v = <<>>

C21_Witness ==
    /\ returned # None /\ last_call # None
    /\ last_call.v.text # <<>>
    /\ Blank(last_call.v.text)
    /\ last_call.v.pieces # <<>>
    /\ returned.v = <<>>

\* C22: in _generate_response_with_tools, tools_used is exactly the names of
\* the tool results handled so far that have success = TRUE, in the order
\* given, and handling a tool result with success = FALSE adds nothing to the
\* tool context (nor to tools_used)
SuccessfulNames(results) ==
    LET F[i \in 0..Len(results)] ==
            IF i = 0 THEN <<>>
            ELSE IF results[i].success
                 THEN Append(F[i - 1], results[i].tool_name) ELSE F[i - 1]
    IN F[Len(results)]

\* how many of the turn's tool results the composition loop has taken up
Handled ==
    IF pc = "compose" THEN turn.i - 1
    ELSE IF pc = "compose_github" THEN turn.i
    ELSE IF pc \in {"respond", "idle"} /\ turn.path = "tools" /\ turn.rag # "none"
    THEN Len(turn.tool_results)
    ELSE 0

C22_ToolsUsedAreSuccesses ==
    /\ turn.tools_used = SuccessfulNames(SubSeq(turn.tool_results, 1, Handled))
    /\ (\A i \in 1..Handled : ~turn.tool_results[i].success)
       => turn.tool_context_parts = <<>>

C22_FailedAddsNothing ==
    (/\ pc = "compose"
     /\ turn.i <= Len(turn.tool_results)
     /\ ~turn.tool_results[turn.i].success)
    => /\ turn'.tool_context_parts = turn.tool_context_parts
       /\ turn'.tools_used = turn.tools_used

C22_OnlySuccessesContribute ==
    []C22_ToolsUsedAreSuccesses /\ [][C22_FailedAddsNothing]_vars

C22_Witness ==
    /\ returned # None
    /\ Len(turn.tool_results) = 2
    /\ ~turn.tool_results[1].success
    /\ turn.tool_results[2].success
    /\ turn.tools_used = <<turn.tool_results[2].tool_name>>
    /\ Len(turn.tool_context_parts) = 1

\* the LLM calls of the turn whose prompt holds the sentinel of an empty tool
\* context
Sentinel == <<"No tool results available.">>
CallsWithSentinel ==
    {n \in DOMAIN turn.llm_calls :
        \E m \in DOMAIN turn.llm_calls[n].messages :
            IsInfix(Sentinel, turn.llm_calls[n].messages[m].content)}

\* a tool-path turn whose generation step has run, with no context part from
\* any tool and a retrieval that came back without a hit
NoToolContentNoHit ==
    /\ turn.path = "tools"
    /\ turn.rag \in {"ok", "failed"}
    /\ turn.tool_context_parts = <<>>
    /\ turn.llm_calls # <<>>
    /\ turn.llm_calls[1].kind = "rag"
    /\ IsInfix(<<"No relevant documents found.">>,
               turn.llm_calls[1].messages[Len(turn.llm_calls[1].messages)].content)

\* C23 as stated: whenever no tool result contributes content and the
\* retrieval returns no hit, a prompt sent to the LLM for the turn carries the
\* sentinel "No tool results available." as its tool-results placeholder
C23_AsStated == NoToolContentNoHit => CallsWithSentinel # {}

\* C23 as the code has it: the combined prompt always ends with a non-empty
\* tool-results block, which is the sentinel exactly when no tool result
\* contributed content; but the combined prompt is sent only when a tool
\* contributed content or the retrieval had a hit, so with neither the only
\* LLM call of the turn is the RAG call and no prompt carries the sentinel
C23_SentinelOnlyInCombinedPrompt ==
    /\ \A n \in DOMAIN turn.llm_calls :
          turn.llm_calls[n].kind = "combined"
          => LET content == turn.llm_calls[n].messages[2].content
             IN /\ content[Len(content)] # "\n\nTool Results:\n"
                /\ (n \in CallsWithSentinel) <=> (turn.tool_context_parts = <<>>)
                /\ turn.tool_context_parts = <<>>
                   => /\ content[Len(content)] = Sentinel[1]
                      /\ content[Len(content) - 1] = "\n\nTool Results:\n"
                      /\ turn.llm_calls[n].retrieval_context
    /\ NoToolContentNoHit
       => /\ Len(turn.llm_calls) = 1
          /\ CallsWithSentinel = {}

C23_Witness ==
    /\ returned # None
    /\ turn.path = "tools"
    /\ turn.tool_context_parts = <<>>
    /\ Len(turn.llm_calls) = 2
    /\ turn.llm_calls[2].kind = "combined"
    /\ CallsWithSentinel = {2}

\* C24: for each of the three repository-search tools, an execute call that
\* finds the tool's remaining-quota counter at zero is denied locally: the
\* ToolResult is a failure and no network request is made
C24_AsStated ==
    (/\ last_call # None
     /\ last_call.v.checked # None
     /\ last_call.v.checked.v = 0)
    => /\ ~last_call.v.requested
       /\ ~last_call.v.result.success

\* C25: the text analysis never divides by zero, whatever the text: the
\* tool does not raise, its result is a success, and every quotient in it
\* has a non-zero divisor; for the empty text character_count, word_count
\* and average_word_length are 0, and in the detailed analysis so are
\* vocabulary_richness and average_sentence_length
IsZero(ratio) == ratio.num = 0 /\ ratio.den # 0

C25_NoDivisionByZero ==
    (returned # None /\ last_call # None)
    => /\ ~returned.v.raised
       /\ returned.v.value.success
       /\ LET analysis == returned.v.value.result
              detailed == last_call.v.analysis_type = "detailed"
          IN /\ analysis.average_word_length.den # 0
             /\ detailed => /\ analysis.vocabulary_richness.den # 0
                             /\ analysis.average_sentence_length.den # 0
             /\ last_call.v.text = <<>>
                => /\ analysis.character_count = 0
                   /\ analysis.word_count = 0
                   /\ IsZero(analysis.average_word_length)
                   /\ detailed => /\ IsZero(analysis.vocabulary_richness)
                                   /\ IsZero(analysis.average_sentence_length)

C25_Witness ==
    /\ returned # None /\ last_call # None
    /\ last_call.v.text = <<>>
    /\ last_call.v.analysis_type = "detailed"
    /\ returned.v.value.success
    /\ IsZero(returned.v.value.result.average_sentence_length)

\* C26: a step in which a tool is executed through execute_tool (from
\* outside a turn, for a recommended tool, or for a fetched GitHub file)
\* leaves short-term memory as it was; short-term memory changes only in the
\* two steps of process_request that write it (the user input on entry, the
\* response or error on return); working memory changes only when the
\* orchestrator stores recent_tool_results after the last recommended tool
\* has run; long-term memory never changes
ExecutesTool == calls'.execute_tool # calls.execute_tool

C26_ToolsLeaveMemoryAlone ==
    /\ ExecutesTool
       => /\ memory'.short_term_memory = memory.short_term_memory
          /\ memory'.long_term_memory = memory.long_term_memory
    /\ memory'.short_term_memory # memory.short_term_memory
       => \/ pc = "idle" /\ pc' = "decide"
          \/ pc = "respond" /\ pc' = "idle"
    /\ memory'.working_memory # memory.working_memory
       => /\ pc = "tools" /\ pc' = "compose"
          /\ memory'.working_memory
                 = DictSet(memory.working_memory, "recent_tool_results",
                           turn'.tool_results)
    /\ memory'.long_term_memory = memory.long_term_memory

SameToolsInOrder ==
    /\ Len(turn.tool_results) = Len(turn.recommended_tools)
    /\ \A i \in DOMAIN turn.tool_results :
          turn.tool_results[i].tool_name = turn.recommended_tools[i].tool_name

C27_JoinedBeforeComposition ==
    /\ pc = "tools"
       => /\ Len(turn.tool_results) < Len(turn.recommended_tools)
          /\ turn.tool_context_parts = <<>>
          /\ turn.tools_used = <<>>
          /\ turn.retrievals = <<>>
          /\ turn.llm_calls = <<>>
    /\ (turn.path = "tools" /\ pc \in {"compose", "compose_github", "respond"})
       => SameToolsInOrder
    /\ (turn.path = "tools" /\ returned # None)
       => /\ SameToolsInOrder
          /\ turn.rag # "none"
          /\ Len(turn.retrievals) = 1

C27_OneCallPerTool ==
    pc = "tools"
    => /\ calls'.execute_tool = calls.execute_tool + 1
       /\ last_call'.v.tool_name
              = turn.recommended_tools[Len(turn.tool_results) + 1].tool_name
       /\ Len(turn'.tool_results) = Len(turn.tool_results) + 1
       /\ SubSeq(turn'.tool_results, 1, Len(turn.tool_results)) = turn.tool_results
       /\ turn'.tool_results[Len(turn'.tool_results)].tool_name
              = turn.recommended_tools[Len(turn.tool_results) + 1].tool_name
       /\ pc' \in {"tools", "compose"}

C27_EveryToolOnceInOrder ==
    []C27_JoinedBeforeComposition /\ [][C27_OneCallPerTool]_vars

C27_Witness ==
    /\ returned # None
    /\ turn.path = "tools"
    /\ Len(turn.recommended_tools) = 2
    /\ ~turn.tool_results[1].success
    /\ SameToolsInOrder
    /\ turn.rag = "ok"
    /\ returned.v.value.success

\* C28: in the per-file loop over the top results (at most 3) of a
\* successful github_search_with_content, a result that carries content
\* causes exactly one execute_tool call, of add_to_knowledge_base with that
\* content, and a result without content causes none; whatever the outcome
\* of the insert the result gets its part in the tool context and the loop
\* goes on; and the retrieval query and the LLM calls of the turn come only
\* after the loop
CurrentGithubResult ==
    Prefix(turn.tool_results[turn.i].result.results, 3)[turn.gh_i]

C28_InsertsBeforeRetrieval ==
    pc = "compose_github"
    => /\ turn.tool_results[turn.i].success
       /\ turn.tool_results[turn.i].tool_name = "github_search_with_content"
       /\ turn.gh_i \in 1..3
       /\ turn.retrievals = <<>>
       /\ turn.llm_calls = <<>>

C28_OneInsertPerFile ==
    pc = "compose_github"
    => /\ IF Truthy(CurrentGithubResult.content)
          THEN /\ calls'.execute_tool = calls.execute_tool + 1
               /\ last_call'.v.tool_name = "add_to_knowledge_base"
               /\ last_call'.v.parameters.content = CurrentGithubResult.content.v
          ELSE /\ calls' = calls
               /\ last_call' = last_call
               /\ execution_history' = execution_history
               /\ index_chunks' = index_chunks
       /\ turn'.tool_context_parts
              = Append(turn.tool_context_parts,
                       GithubPart(turn.gh_i, CurrentGithubResult))
       /\ pc' \in {"compose", "compose_github"}
       /\ turn'.generated = None

C28_GithubContentInserted ==
    []C28_InsertsBeforeRetrieval /\ [][C28_OneInsertPerFile]_vars

\* a finished, successful turn whose github search gave a file without
\* content and a file with content, the insert of which failed: both files
\* are in the context
C28_Witness ==
    /\ returned # None
    /\ returned.v.value.success
    /\ turn.path = "tools"
    /\ turn.tool_results[1].tool_name = "github_search_with_content"
    /\ turn.tool_results[1].success
    /\ Len(turn.tool_results[1].result.results) = 2
    /\ last_call # None
    /\ last_call.v.tool_name = "add_to_knowledge_base"
    /\ ~last_call.v.result.success
    /\ Len(turn.tool_context_parts) >= 3
    /\ Len(turn.retrievals) = 1

ShortTerm == memory.short_term_memory

C30_Cap == Len(ShortTerm) <= ShortTermLimit

C30_AppendsApplied ==
    LET after == ShortTerm'
        entered == calls'.turns = calls.turns + 1
        returns == pc = "respond" /\ pc' = "idle"
    IN /\ (entered \/ returns) => after # ShortTerm
       /\ after # ShortTerm =>
             /\ after # <<>>
             /\ after = LastN(Append(ShortTerm, after[Len(after)]), ShortTermLimit)
             /\ after[Len(after)].timestamp = clock
       /\ entered =>
             /\ after[Len(after)].type = "user_input"
             /\ after[Len(after)].content = turn'.user_input

C30_ResponseAfterOwnInput ==
    (pc = "respond" /\ pc' = "idle") =>
        LET after == ShortTerm'
        IN /\ after[Len(after)].type \in {"agent_response", "error"}
           /\ \A i \in DOMAIN after :
                  (after[i].type = "user_input" /\ after[i].content = turn.user_input)
                      => /\ i < Len(after)
                         /\ after[i].timestamp < after[Len(after)].timestamp

C30_InterleavedMemory == []C30_Cap /\ [][C30_AppendsApplied /\ C30_ResponseAfterOwnInput]_vars

\* both turns have returned, the second one entered while the first one was
\* suspended, and the oldest items have been evicted
C30_Witness ==
    /\ Finished(Frame(pc, turn, returned))
    /\ "suspended" \in DOMAIN turn /\ Finished(turn.suspended)
    /\ turn.user_input # turn.suspended.turn.user_input
    /\ Len(ShortTerm) = ShortTermLimit
    /\ ShortTerm[1].timestamp > 0 - MaxEarlierItems + 1
    /\ LET n == Len(ShortTerm)
       IN /\ ShortTerm[n - 3].type = "user_input"
          /\ ShortTerm[n - 2].type = "user_input"
          /\ ShortTerm[n - 1].type \in {"agent_response", "error"}
          /\ ShortTerm[n].type \in {"agent_response", "error"}
          /\ ShortTerm[n - 3].content # ShortTerm[n - 2].content

\* C31: for every limit >= 0 the two readers return at most limit entries,
\* the most recent ones in insertion order, and the empty list for limit 0
ReadList ==
    IF last_call.v.op = "get_execution_history"
    THEN execution_history ELSE memory.short_term_memory

C31_AsStated ==
    last_call # None =>
        /\ Len(returned.v) <= last_call.v.limit
        /\ returned.v = LastN(ReadList, last_call.v.limit)
        /\ last_call.v.limit = 0 => returned.v = <<>>

\* C32: whenever add_document returns success = False, the Document row and
\* the DocumentChunk rows created during the call have been removed
C32_AsStated ==
    (last_call # None /\ ~returned.v.success) =>
        /\ last_call.v.id \notin document_manager.documents
        /\ \A c \in document_manager.chunks : c[1] # last_call.v.id

\* C33: a process_request call appends exactly two items to short-term
\* memory, first a user_input item and last an agent_response item (result
\* with success = True) or an error item (success = False); so after k turns
\* on a fresh memory the length is min(2k, 50), and memory_items of a
\* success result is that length
TurnReturned == pc = "idle" /\ returned # None

C33_LengthAtReturn ==
    TurnReturned =>
        LET items == memory.short_term_memory
            n == Len(items)
            k == TurnsBefore + calls.turns
            result == returned.v.value
        IN /\ n = Min(2 * k, ShortTermLimit)
           /\ items[n - 1].type = "user_input"
           /\ items[n - 1].content = turn.user_input
           /\ items[n].type = IF result.success THEN "agent_response" ELSE "error"
           /\ result.success => result.memory_items = n

\* the only steps of a turn that change short-term memory are its entry and
\* its return, and each appends one item under the cap
C33_OneItemAppended ==
    memory'.short_term_memory # memory.short_term_memory =>
        LET before == memory.short_term_memory
            after == memory'.short_term_memory
            last == after[Len(after)]
        IN /\ after # <<>>
           /\ after = LastN(before \o <<last>>, ShortTermLimit)
           /\ \/ calls'.turns = calls.turns + 1 /\ last.type = "user_input"
              \/ /\ pc = "respond" /\ pc' = "idle"
                 /\ last.type \in {"agent_response", "error"}

C33_TwoItemsPerTurn == []C33_LengthAtReturn /\ [][C33_OneItemAppended]_vars

\* a turn on a full memory has returned with success and has evicted the two
\* oldest items
C33_Witness ==
    /\ TurnReturned
    /\ returned.v.value.success
    /\ TurnsBefore = MaxEarlierTurns - 1
    /\ returned.v.value.memory_items = ShortTermLimit
    /\ memory.short_term_memory[1].timestamp = 3 - 2 * TurnsBefore

\* C34: after every turn that returns success = True, the assistant message
\* recorded for the turn in the conversation history has the content of the
\* response that process_request returned and stored in short-term memory
LastOf(seq) == seq[Len(seq)]

C34_AsStated ==
    (TurnReturned /\ returned.v.value.success) =>
        /\ LastOf(memory.short_term_memory).content = returned.v.value.response
        /\ ~conversation.isNone
        /\ conversation.v # <<>>
        /\ LastOf(conversation.v).role = "assistant"
        /\ LastOf(conversation.v).content = returned.v.value.response

\* C35: in every reachable state the conversation is a sequence of (user,
\* assistant) message pairs: process_query appends both messages of a query
\* or neither
PairedMessages(messages) ==
    /\ Len(messages) % 2 = 0
    /\ \A i \in DOMAIN messages :
           messages[i].role = IF i % 2 = 1 THEN "user" ELSE "assistant"

C35_AsStated == ~conversation.isNone => PairedMessages(conversation.v)

\* C36: after clear_conversation, no message exchanged before the clear is
\* among the messages sent to the LLM in a later turn
EarlierMessages ==
    {[role |-> "user", content |-> <<"h", "i">>],
     [role |-> "assistant", content |-> <<"answer">>]}

C36_AsStated ==
    Cleared =>
        \A i \in DOMAIN turn.llm_calls :
            \A j \in DOMAIN turn.llm_calls[i].messages :
                turn.llm_calls[i].messages[j] \notin EarlierMessages

\* C37: every tool name the policy recommends is registered when the
\* decision is made, with and without a GITHUB_TOKEN, so an execution
\* recommended by the policy never ends with a 'not found' ToolResult
C37_AsStated ==
    /\ \A i \in DOMAIN turn.recommended_tools :
           turn.recommended_tools[i].tool_name \in DOMAIN tools
    /\ \A i \in DOMAIN turn.tool_results :
           turn.tool_results[i].error.isNone
           \/ ~IsInfix(<<"not found">>, turn.tool_results[i].error.v)

\* C38: a process_request turn makes at most two LLM calls, and exactly one
\* when its retrieval-augmented call succeeded and the policy recommended no
\* tool for the utterance
PolicyRecommendedNone ==
    decide_tool_usage(turn.user_input).recommended_tools = <<>>

C38_AtMostTwoCalls ==
    /\ Len(turn.llm_calls) <= 2
    /\ (pc \in {"respond", "idle"} /\ turn.rag = "ok" /\ PolicyRecommendedNone)
       => Len(turn.llm_calls) = 1

C38_Witness ==
    /\ TurnReturned
    /\ turn.rag = "ok" /\ PolicyRecommendedNone
    /\ Len(turn.llm_calls) = 1
    /\ turn.llm_calls[1].kind = "rag"
    /\ ~returned.v.raised /\ returned.v.value.success

C38_WitnessTwoCalls ==
    /\ TurnReturned
    /\ Len(turn.llm_calls) = 2
    /\ turn.path = "tools"


\* C39: a process_request turn called with use_tools=False executes no tool
\* whatever the utterance contains: no step of it changes execution_history,
\* working memory or the knowledge base, and the result's tools_used is empty.
\* As stated: every result of such a turn carries an empty tools_used.
WithoutTools == ~turn.use_tools

StepWithoutTools ==
    \/ pc # "idle" /\ WithoutTools
    \/ pc = "idle" /\ pc' = "decide" /\ ~turn'.use_tools

C39_NoToolStep ==
    StepWithoutTools
    => /\ execution_history' = execution_history
       /\ memory'.working_memory = memory.working_memory
       /\ index_chunks' = index_chunks
       /\ document_manager' = document_manager
       /\ turn'.tool_results = <<>> /\ turn'.tools_used = <<>>
       /\ pc' \notin {"tools", "compose", "compose_github"}

C39_ResultNamesNoTool ==
    (TurnReturned /\ WithoutTools)
    => IF returned.v.value.success
       THEN returned.v.value.tools_used = <<>>
       ELSE /\ "tools_used" \notin DOMAIN returned.v.value
            /\ turn.rag = "raised"

C40_AsStated ==
    ~last_call.isNone
    => /\ last_call.v.rag \in {"raised", "failed"} => last_call.v.direct_asked
       /\ ~(/\ returned.v.success
            /\ returned.v.response = Placeholder
            /\ ~last_call.v.direct_asked)


====
